---- MODULE Spec2Model ----
(***************************************************************************)
(* kubemcp: the mutation safety gate (src/utils/audit.ts), the             *)
(* consolidated tool handlers that use it (src/tools/consolidated/*.ts)    *)
(* and the server entry point's dispatcher (src/index.ts).                 *)
(*                                                                         *)
(* Abstractions.  Strings built by the code are sequences of tokens.       *)
(* An optional boolean argument is one of "true", "false", "undefined".    *)
(* An audit entry keeps action, resource, result, dryRun and whether it     *)
(* has an error; its timestamp, name, namespace, input echo and the text   *)
(* of the error are left out.  The cluster                                 *)
(* collaborator is the sequence of API calls a handler makes on it, each   *)
(* of which may throw.                                                     *)
(***************************************************************************)
EXTENDS Integers, Sequences, FiniteSets, TLC

VARIABLES
    sessionLog,   \* audit.ts: const sessionLog: AuditEntry[]
    dryRunMode,   \* audit.ts: let dryRunMode
    auditConfig,  \* audit.ts: let auditConfig
    last,         \* the call made last: its arguments, what it returned or
                  \* threw, and the collaborator calls it made
    snapshot,     \* the array a caller of getSessionLog kept
    inflight      \* the tool calls in flight, each with the await it is
                  \* suspended at and the collaborator calls it has invoked

vars == <<sessionLog, dryRunMode, auditConfig, last, snapshot, inflight>>

----------------------------------------------------------------------------
(* Bounds *)

\* longest ledger explored when audit.ts is called directly
MaxApiLog == 2
\* longest ledger explored when the ledger is filled by tool calls
MaxLog == 1

----------------------------------------------------------------------------
(* Values *)

AuditAction == {"create", "update", "delete", "scale", "restart", "get", "list"}
AuditResult == {"success", "failure", "dry-run"}

\* boolean | undefined
OptBool == {"true", "false", "undefined"}

\* JavaScript truthiness of a boolean | undefined
Truthy(b) == b = "true"

\* String.prototype.toUpperCase on the action kinds
ToUpperCase(s) ==
    CASE s = "create" -> "CREATE"
      [] s = "update" -> "UPDATE"
      [] s = "delete" -> "DELETE"
      [] s = "scale" -> "SCALE"
      [] s = "restart" -> "RESTART"
      [] s = "get" -> "GET"
      [] s = "list" -> "LIST"
      [] OTHER -> s

NoError == <<>>

DefaultAuditConfig ==
    [enabled |-> TRUE,
     logToConsole |-> FALSE,
     requireConfirmation |-> TRUE,
     confirmationRequired |-> {"delete", "update", "scale"}]

NoReq ==
    [tool |-> "none", action |-> "none", name |-> FALSE, data |-> FALSE,
     replicas |-> FALSE, confirm |-> "undefined", dryRun |-> "undefined"]

\* the record kept of a call
Call(op, req, validation, out, value, api) ==
    [op |-> op, req |-> req, validation |-> validation, out |-> out,
     value |-> value, api |-> api]

NoCall == Call("none", NoReq, "none", "none", <<>>, <<>>)

\* no array kept
NoSnapshot == [kept |-> FALSE]

\* the tool calls that can be in flight together
CallIds == {"c1", "c2"}

\* a call that has not started.  pc is the await a started call is suspended
\* at; result is the outcome it logged or returned; api is the collaborator
\* calls it has invoked
NoTask ==
    [pc |-> "idle", action |-> "none", resource |-> "none",
     confirm |-> "undefined", dryRun |-> "undefined",
     validation |-> "none", result |-> "none", api |-> <<>>]

NoneInFlight == [id \in CallIds |-> NoTask]

----------------------------------------------------------------------------
(* src/utils/audit.ts *)

\* { ...auditConfig, ...config }: the fields of config win
\* a merge that resets the fields not supplied to their defaults
MergeConfig_resetsOthers(cfg, partial) ==
    [k \in DOMAIN cfg |->
        IF k \in DOMAIN partial THEN partial[k] ELSE DefaultAuditConfig[k]]

\* { ...auditConfig, ...config }
MergeConfig(cfg, partial) ==
    [k \in DOMAIN cfg |-> IF k \in DOMAIN partial THEN partial[k] ELSE cfg[k]]

\* a requiresConfirmation that forgets that scale is in the set
requiresConfirmation_skipsScale(action) ==
    auditConfig.requireConfirmation
        /\ action \in (auditConfig.confirmationRequired \ {"scale"})

requiresConfirmation(action) ==
    auditConfig.requireConfirmation
        /\ action \in auditConfig.confirmationRequired

ConfirmationError(action) ==
    <<"Action", action, "requires confirmation.",
      "Set confirm=true to proceed,", "or use dryRun=true to preview changes.">>

\* a validateConfirmation that takes an absent confirm for a given one
validateConfirmation_absentConfirms(action, confirmed, dryRun) ==
    IF Truthy(dryRun) \/ dryRunMode
    THEN [valid |-> TRUE, error |-> NoError]
    ELSE IF requiresConfirmation(action) /\ confirmed = "false"
         THEN [valid |-> FALSE, error |-> ConfirmationError(action)]
         ELSE [valid |-> TRUE, error |-> NoError]

validateConfirmation(action, confirmed, dryRun) ==
    IF Truthy(dryRun) \/ dryRunMode
    THEN [valid |-> TRUE, error |-> NoError]
    ELSE IF requiresConfirmation(action) /\ ~Truthy(confirmed)
         THEN [valid |-> FALSE, error |-> ConfirmationError(action)]
         ELSE [valid |-> TRUE, error |-> NoError]

\* a logAudit that puts the new entry first
logAudit_prepends(log, entry) == <<entry>> \o log

\* sessionLog.push(fullEntry)
logAudit(log, entry) == Append(log, entry)

\* a clear that drops only the newest entry
clearSessionLog_dropsNewest(log) ==
    IF log = <<>> THEN <<>> ELSE SubSeq(log, 1, Len(log) - 1)

\* sessionLog.length = 0
clearSessionLog(log) == <<>>

\* [...sessionLog]
getSessionLog(log) == log

\* a value stored in byAction or byResource: a number, or the string that
\* + builds when its left operand is not a number
Num(n) == [type |-> "number", n |-> n]
Str(s) == [type |-> "string", s |-> s]

\* property names a {} literal inherits from Object.prototype
ObjectPrototype ==
    {"constructor", "toString", "toLocaleString", "valueOf", "hasOwnProperty",
     "isPrototypeOf", "propertyIsEnumerable", "__proto__"}

\* obj[key] = (obj[key] || 0) + 1 on an object created by {}: the read
\* finds an own property, else an inherited member (truthy, so + makes a
\* string of it), else undefined; the write of a string to __proto__ is
\* ignored by its setter
Bump(f, k) ==
    LET new == IF k \in DOMAIN f
               THEN IF f[k].type = "number" THEN Num(f[k].n + 1)
                    ELSE Str(Append(f[k].s, 1))
               ELSE IF k \in ObjectPrototype
                    THEN Str(<<"Object.prototype", k, 1>>)
                    ELSE Num(1)
    IN IF k = "__proto__" THEN f
       ELSE [x \in DOMAIN f \cup {k} |-> IF x = k THEN new ELSE f[x]]

EmptyStats(log) ==
    [total |-> Len(log), success |-> 0, failure |-> 0, dryRun |-> 0,
     byAction |-> <<>>, byResource |-> <<>>]

\* the body of the for loop of getSessionStats
StatsStep(stats, entry) ==
    [total |-> stats.total,
     success |-> stats.success + (IF entry.result = "success" THEN 1 ELSE 0),
     failure |-> stats.failure + (IF entry.result = "failure" THEN 1 ELSE 0),
     dryRun |-> stats.dryRun + (IF entry.result = "dry-run" THEN 1 ELSE 0),
     byAction |-> Bump(stats.byAction, entry.action),
     byResource |-> Bump(stats.byResource, entry.resource)]

RECURSIVE StatsFold(_, _, _)
StatsFold(log, i, stats) ==
    IF i > Len(log) THEN stats
    ELSE StatsFold(log, i + 1, StatsStep(stats, log[i]))

getSessionStats(log) == StatsFold(log, 1, EmptyStats(log))

\* the lines of the preview, without the rules and blank lines
createDryRunSummary(action, resource, name, namespace, changes) ==
    <<"DRY-RUN MODE - No changes will be made",
      <<"Action:", ToUpperCase(action)>>,
      <<"Resource:", resource>>,
      <<"Target:", IF namespace # "" THEN <<namespace, "/", name>> ELSE <<name>> >>,
      <<"Proposed Changes:", changes>> >>

----------------------------------------------------------------------------
(* Entries *)

\* error: whether the entry carries an error text
Entry(action, resource, name, result, error, dryRun) ==
    [action |-> action, resource |-> resource,
     result |-> result, error |-> error # NoError, dryRun |-> dryRun]

----------------------------------------------------------------------------
(* Direct calls of the functions exported by src/utils/audit.ts *)

Init ==
    /\ sessionLog = <<>>
    /\ dryRunMode = FALSE
    /\ auditConfig = DefaultAuditConfig
    /\ last = NoCall
    /\ snapshot = NoSnapshot
    /\ inflight = NoneInFlight

\* the sets of action kinds tried for confirmationRequired
ConfirmSets == {{"delete"}, {"create", "update", "delete", "scale", "restart"}}

\* Partial<AuditConfig>: any subset of the four fields
FieldChoices(vals) == {<<FALSE, v>> : v \in {CHOOSE x \in vals : TRUE}} \cup {<<TRUE, v>> : v \in vals}

Partials ==
    { [k \in {f \in {"enabled", "logToConsole", "requireConfirmation", "confirmationRequired"} :
                 CASE f = "enabled" -> e[1]
                   [] f = "logToConsole" -> l[1]
                   [] f = "requireConfirmation" -> r[1]
                   [] OTHER -> c[1]}
          |-> CASE k = "enabled" -> e[2]
                [] k = "logToConsole" -> l[2]
                [] k = "requireConfirmation" -> r[2]
                [] OTHER -> c[2]] :
        e \in FieldChoices(BOOLEAN), l \in FieldChoices(BOOLEAN),
        r \in FieldChoices(BOOLEAN), c \in FieldChoices(ConfirmSets) }

\* the partial configurations tried while the ledger is explored
LedgerPartials == {p \in Partials : DOMAIN p = {"logToConsole"}}

SetDryRunMode(enabled) ==
    /\ dryRunMode' = enabled
    /\ last' = Call("setDryRunMode", NoReq, "none", "return", <<enabled>>, <<>>)
    /\ UNCHANGED <<sessionLog, auditConfig, snapshot, inflight>>

ConfigureAudit(partial) ==
    /\ auditConfig' = MergeConfig(auditConfig, partial)
    /\ last' = Call("configureAudit", NoReq, "none", "return", <<partial>>, <<>>)
    /\ UNCHANGED <<sessionLog, dryRunMode, snapshot, inflight>>

ValidateConfirmation(action, confirmed, dryRun) ==
    LET v == validateConfirmation(action, confirmed, dryRun) IN
    /\ last' = Call("validateConfirmation",
                    [NoReq EXCEPT !.action = action, !.confirm = confirmed,
                                  !.dryRun = dryRun],
                    IF v.valid THEN "valid" ELSE "invalid",
                    "return", v.error, <<>>)
    /\ UNCHANGED <<sessionLog, dryRunMode, auditConfig, snapshot, inflight>>

\* the entries logged directly
LogActions == {"delete", "scale"}
LogResources == {"pod", "constructor"}

LogEntries ==
    { Entry(a, r, "n1", res,
            IF res = "failure" THEN <<"Not found">> ELSE NoError,
            res = "dry-run") :
        a \in LogActions, r \in LogResources, res \in AuditResult }

LogAudit(entry) ==
    /\ Len(sessionLog) < MaxApiLog
    /\ sessionLog' = logAudit(sessionLog, entry)
    /\ last' = Call("logAudit", NoReq, "none", "return", <<entry>>, <<>>)
    /\ UNCHANGED <<dryRunMode, auditConfig, snapshot, inflight>>

GetSessionLog ==
    /\ last' = Call("getSessionLog", NoReq, "none", "return",
                    getSessionLog(sessionLog), <<>>)
    /\ UNCHANGED <<sessionLog, dryRunMode, auditConfig, snapshot, inflight>>

GetSessionStats ==
    /\ last' = Call("getSessionStats", NoReq, "none", "return",
                    getSessionStats(sessionLog), <<>>)
    /\ UNCHANGED <<sessionLog, dryRunMode, auditConfig, snapshot, inflight>>

ClearSessionLog ==
    /\ sessionLog' = clearSessionLog(sessionLog)
    /\ last' = Call("clearSessionLog", NoReq, "none", "return", <<>>, <<>>)
    /\ UNCHANGED <<dryRunMode, auditConfig, snapshot, inflight>>

\* [...sessionLog]: the array returned is a new one with the entries of the
\* ledger at that time (shared: it is the ledger's own array)
Spread(log) == [kept |-> TRUE, shared |-> FALSE, items |-> log]

\* what the holder of an array returned earlier finds in it now
Contents(s) == IF s.shared THEN sessionLog ELSE s.items

\* getSessionLog by a caller that keeps the array it got
KeepSessionLog ==
    /\ snapshot' = Spread(sessionLog)
    /\ last' = Call("getSessionLog", NoReq, "none", "return",
                    getSessionLog(sessionLog), <<>>)
    /\ UNCHANGED <<sessionLog, dryRunMode, auditConfig, inflight>>

\* the gate: dry-run flag, configuration and validateConfirmation
NextGate ==
    \/ \E b \in BOOLEAN : SetDryRunMode(b)
    \/ \E p \in Partials : ConfigureAudit(p)
    \/ \E a \in AuditAction, c \in OptBool, d \in OptBool :
          ValidateConfirmation(a, c, d)

SpecGate == Init /\ [][NextGate]_vars

\* the ledger: logAudit, the reads, the clear, and the two other setters
NextLedger ==
    \/ \E e \in LogEntries : LogAudit(e)
    \/ GetSessionLog
    \/ GetSessionStats
    \/ ClearSessionLog
    \/ \E b \in BOOLEAN : SetDryRunMode(b)
    \/ \E p \in LedgerPartials : ConfigureAudit(p)

SpecLedger == Init /\ [][NextLedger]_vars

\* the entries logged while a caller keeps a snapshot
SnapshotEntries == {e \in LogEntries : e.action = "delete" /\ e.resource = "pod"}

\* the ledger with a caller that keeps what getSessionLog returned
NextSnapshot ==
    \/ \E e \in SnapshotEntries : LogAudit(e)
    \/ KeepSessionLog
    \/ GetSessionLog
    \/ GetSessionStats
    \/ ClearSessionLog
    \/ \E b \in BOOLEAN : SetDryRunMode(b)
    \/ \E p \in LedgerPartials : ConfigureAudit(p)

SpecSnapshot == Init /\ [][NextSnapshot]_vars

\* the two setters with every partial configuration, over a ledger that
\* is being written
NextConfig ==
    \/ \E b \in BOOLEAN : SetDryRunMode(b)
    \/ \E p \in Partials : ConfigureAudit(p)
    \/ \E e \in SnapshotEntries : LogAudit(e)

SpecConfig == Init /\ [][NextConfig]_vars

----------------------------------------------------------------------------
(* The cluster collaborator, as the consolidated handlers use it *)

\* namespace || config.defaultNamespace
DefaultNamespace == "default"

\* the error of k8sClient.initialize()
InitError == <<"Failed to initialize Kubernetes client">>

\* the error a collaborator call throws, as handleK8sError renders it
ApiError(call) == <<call, "failed">>

\* which step of a call fails: none, ensureInitialized, or the first,
\* second or third collaborator call
FateOf == <<"call1", "call2", "call3">>

Fates(calls) ==
    {"ok", "init"} \cup { FateOf[i] : i \in 1..Len(calls) }

\* await api.first(...); await api.second(...); ...: the call the fate
\* names rejects, the calls after it are not made
RunApi(calls, fate) ==
    IF \E i \in 1..Len(calls) : fate = FateOf[i]
    THEN LET i == CHOOSE j \in 1..Len(calls) : fate = FateOf[j] IN
         [ok |-> FALSE, api |-> SubSeq(calls, 1, i),
          cause |-> ApiError(calls[i])]
    ELSE [ok |-> TRUE, api |-> calls, cause |-> NoError]

\* the collaborator calls that change the cluster
MutationCalls ==
    {"deleteNamespacedPod", "replaceNamespacedDeployment",
     "createNamespacedConfigMap", "replaceNamespacedConfigMap",
     "deleteNamespacedConfigMap", "createNamespacedSecret",
     "replaceNamespacedSecret", "deleteNamespacedSecret",
     "createNamespace", "deleteNamespace"}

\* what a handler did: the value it returned or the error it threw, the
\* entries it logged, the result of validateConfirmation if it was called,
\* and the collaborator calls it made
Returned(validation, value, entries, api) ==
    [validation |-> validation, out |-> "return", value |-> value,
     cause |-> NoError, entries |-> entries, api |-> api]

Thrown(validation, cause, entries, api) ==
    [validation |-> validation, out |-> "throw", value |-> <<>>,
     cause |-> cause, entries |-> entries, api |-> api]

isDryRunMode == dryRunMode

\* a read-only pass-through: ensureInitialized, then the collaborator calls
ReadOnly(calls, fate) ==
    IF fate = "init" THEN Thrown("none", InitError, <<>>, <<>>)
    ELSE LET r == RunApi(calls, fate) IN
         IF r.ok THEN Returned("none", <<"data">>, <<>>, r.api)
         ELSE Thrown("none", r.cause, <<>>, r.api)

----------------------------------------------------------------------------
(* src/tools/consolidated/k8s-pods.ts *)

\* a deletePod whose dry-run check forgets the global flag
deletePod_ignoresGlobalDryRun(name, dryRun, confirm, fate) ==
    IF fate = "init" THEN Thrown("none", InitError, <<>>, <<>>)
    ELSE
    LET validation == validateConfirmation("delete", confirm, dryRun) IN
    IF ~validation.valid
    THEN Returned("invalid", validation.error, <<>>, <<>>)
    ELSE IF Truthy(dryRun)
    THEN Returned("valid",
             createDryRunSummary("delete", "pod", name, DefaultNamespace, <<>>),
             <<Entry("delete", "pod", name, "dry-run", NoError, TRUE)>>, <<>>)
    ELSE
    LET r == RunApi(<<"deleteNamespacedPod">>, fate) IN
    IF ~r.ok THEN Thrown("valid", r.cause, <<>>, r.api)
    ELSE Returned("valid", <<"Pod", name, "deleted successfully">>,
             <<Entry("delete", "pod", name, "success", NoError, FALSE)>>, r.api)

deletePod(name, dryRun, confirm, fate) ==
    IF fate = "init" THEN Thrown("none", InitError, <<>>, <<>>)
    ELSE
    LET validation == validateConfirmation("delete", confirm, dryRun) IN
    IF ~validation.valid
    THEN Returned("invalid", validation.error, <<>>, <<>>)
    ELSE IF Truthy(dryRun) \/ isDryRunMode
    THEN Returned("valid",
             createDryRunSummary("delete", "pod", name, DefaultNamespace, <<>>),
             <<Entry("delete", "pod", name, "dry-run", NoError, TRUE)>>, <<>>)
    ELSE
    LET r == RunApi(<<"deleteNamespacedPod">>, fate) IN
    IF ~r.ok THEN Thrown("valid", r.cause, <<>>, r.api)
    ELSE Returned("valid", <<"Pod", name, "deleted successfully">>,
             <<Entry("delete", "pod", name, "success", NoError, FALSE)>>, r.api)

PodsCalls(action) ==
    CASE action = "list" -> <<"listNamespacedPod">>
      [] action = "get" -> <<"readNamespacedPod">>
      [] action = "delete" -> <<"deleteNamespacedPod">>
      [] action = "get_logs" -> <<"readNamespacedPodLog">>
      [] action = "get_status" -> <<"readNamespacedPod">>
      [] action = "summarize_logs" -> <<"readNamespacedPodLog">>

\* a catch block that rethrows without logging
CatchAndLog_silent(o, params, resource) ==
    IF o.out = "throw"
    THEN [o EXCEPT !.cause = <<"Failed to", params.action, resource, ":", o.cause>>]
    ELSE o

\* the catch block shared by the five handlers: log a failure entry, then
\* throw the wrapped error
CatchAndLog(o, params, resource) ==
    IF o.out = "throw"
    THEN [o EXCEPT
            !.entries = Append(o.entries,
                Entry(params.action, resource,
                      IF params.name THEN "n1" ELSE "unknown",
                      "failure", o.cause, Truthy(params.dryRun))),
            !.cause = <<"Failed to", params.action, resource, ":", o.cause>>]
    ELSE o

NameRequired(params) ==
    Thrown("none", <<"name is required for", params.action, "action">>, <<>>, <<>>)

handlePods(params, fate) ==
    CatchAndLog(
        IF params.action = "list" THEN ReadOnly(PodsCalls("list"), fate)
        ELSE IF ~params.name THEN NameRequired(params)
        ELSE IF params.action = "delete"
        THEN deletePod("n1", params.dryRun, params.confirm, fate)
        ELSE ReadOnly(PodsCalls(params.action), fate),
        params, "pod")

----------------------------------------------------------------------------
(* src/tools/consolidated/k8s-deployments.ts *)

scaleDeployment(name, dryRun, confirm, fate) ==
    IF fate = "init" THEN Thrown("none", InitError, <<>>, <<>>)
    ELSE
    LET validation == validateConfirmation("scale", confirm, dryRun) IN
    IF ~validation.valid
    THEN Returned("invalid", validation.error, <<>>, <<>>)
    ELSE IF Truthy(dryRun) \/ isDryRunMode
    THEN Returned("valid",
             createDryRunSummary("scale", "deployment", name, DefaultNamespace,
                                 <<"replicas">>),
             <<Entry("scale", "deployment", name, "dry-run", NoError, TRUE)>>, <<>>)
    ELSE
    LET r == RunApi(<<"readNamespacedDeployment", "replaceNamespacedDeployment">>, fate) IN
    IF ~r.ok THEN Thrown("valid", r.cause, <<>>, r.api)
    ELSE Returned("valid", <<"Deployment", name, "scaled to replicas">>,
             <<Entry("scale", "deployment", name, "success", NoError, FALSE)>>, r.api)

restartDeployment(name, dryRun, confirm, fate) ==
    IF fate = "init" THEN Thrown("none", InitError, <<>>, <<>>)
    ELSE
    LET validation == validateConfirmation("restart", confirm, dryRun) IN
    IF ~validation.valid
    THEN Returned("invalid", validation.error, <<>>, <<>>)
    ELSE IF Truthy(dryRun) \/ isDryRunMode
    THEN Returned("valid",
             createDryRunSummary("restart", "deployment", name, DefaultNamespace,
                                 <<"annotation">>),
             <<Entry("restart", "deployment", name, "dry-run", NoError, TRUE)>>, <<>>)
    ELSE
    LET r == RunApi(<<"readNamespacedDeployment", "replaceNamespacedDeployment">>, fate) IN
    IF ~r.ok THEN Thrown("valid", r.cause, <<>>, r.api)
    ELSE Returned("valid", <<"Deployment", name, "restart initiated">>,
             <<Entry("restart", "deployment", name, "success", NoError, FALSE)>>, r.api)

DeploymentsCalls(action) ==
    CASE action = "list" -> <<"listNamespacedDeployment">>
      [] action = "get" -> <<"readNamespacedDeployment">>
      [] action = "scale" -> <<"readNamespacedDeployment", "replaceNamespacedDeployment">>
      [] action = "restart" -> <<"readNamespacedDeployment", "replaceNamespacedDeployment">>
      [] action = "get_status" -> <<"readNamespacedDeployment">>
      [] action = "get_metrics" -> <<"readNamespacedDeployment", "listNamespacedPod">>

handleDeployments(params, fate) ==
    CatchAndLog(
        IF params.action = "list" THEN ReadOnly(DeploymentsCalls("list"), fate)
        ELSE IF ~params.name THEN NameRequired(params)
        ELSE IF params.action = "scale"
        THEN IF ~params.replicas
             THEN Thrown("none", <<"replicas is required for scale action">>, <<>>, <<>>)
             ELSE scaleDeployment("n1", params.dryRun, params.confirm, fate)
        ELSE IF params.action = "restart"
        THEN restartDeployment("n1", params.dryRun, params.confirm, fate)
        ELSE ReadOnly(DeploymentsCalls(params.action), fate),
        params, "deployment")

----------------------------------------------------------------------------
(* src/tools/consolidated/k8s-configmaps.ts *)

createConfigMap(name, dryRun, fate) ==
    IF fate = "init" THEN Thrown("none", InitError, <<>>, <<>>)
    ELSE IF Truthy(dryRun) \/ isDryRunMode
    THEN Returned("none",
             createDryRunSummary("create", "configmap", name, DefaultNamespace, <<"keys">>),
             <<Entry("create", "configmap", name, "dry-run", NoError, TRUE)>>, <<>>)
    ELSE
    LET r == RunApi(<<"createNamespacedConfigMap">>, fate) IN
    IF ~r.ok THEN Thrown("none", r.cause, <<>>, r.api)
    ELSE Returned("none", <<"ConfigMap", name, "created successfully">>,
             <<Entry("create", "configmap", name, "success", NoError, FALSE)>>, r.api)

updateConfigMap(name, dryRun, confirm, fate) ==
    IF fate = "init" THEN Thrown("none", InitError, <<>>, <<>>)
    ELSE
    LET validation == validateConfirmation("update", confirm, dryRun) IN
    IF ~validation.valid
    THEN Returned("invalid", validation.error, <<>>, <<>>)
    ELSE IF Truthy(dryRun) \/ isDryRunMode
    THEN Returned("valid",
             createDryRunSummary("update", "configmap", name, DefaultNamespace, <<"keys">>),
             <<Entry("update", "configmap", name, "dry-run", NoError, TRUE)>>, <<>>)
    ELSE
    LET r == RunApi(<<"readNamespacedConfigMap", "replaceNamespacedConfigMap">>, fate) IN
    IF ~r.ok THEN Thrown("valid", r.cause, <<>>, r.api)
    ELSE Returned("valid", <<"ConfigMap", name, "updated successfully">>,
             <<Entry("update", "configmap", name, "success", NoError, FALSE)>>, r.api)

deleteConfigMap(name, dryRun, confirm, fate) ==
    IF fate = "init" THEN Thrown("none", InitError, <<>>, <<>>)
    ELSE
    LET validation == validateConfirmation("delete", confirm, dryRun) IN
    IF ~validation.valid
    THEN Returned("invalid", validation.error, <<>>, <<>>)
    ELSE IF Truthy(dryRun) \/ isDryRunMode
    THEN Returned("valid",
             createDryRunSummary("delete", "configmap", name, DefaultNamespace, <<>>),
             <<Entry("delete", "configmap", name, "dry-run", NoError, TRUE)>>, <<>>)
    ELSE
    LET r == RunApi(<<"deleteNamespacedConfigMap">>, fate) IN
    IF ~r.ok THEN Thrown("valid", r.cause, <<>>, r.api)
    ELSE Returned("valid", <<"ConfigMap", name, "deleted successfully">>,
             <<Entry("delete", "configmap", name, "success", NoError, FALSE)>>, r.api)

ConfigMapsCalls(action) ==
    CASE action = "list" -> <<"listNamespacedConfigMap">>
      [] action = "get" -> <<"readNamespacedConfigMap">>
      [] action = "create" -> <<"createNamespacedConfigMap">>
      [] action = "update" -> <<"readNamespacedConfigMap", "replaceNamespacedConfigMap">>
      [] action = "delete" -> <<"deleteNamespacedConfigMap">>

handleConfigMaps(params, fate) ==
    CatchAndLog(
        IF params.action = "list" THEN ReadOnly(ConfigMapsCalls("list"), fate)
        ELSE IF ~params.name THEN NameRequired(params)
        ELSE IF params.action = "create"
        THEN IF ~params.data
             THEN Thrown("none", <<"data is required for create action">>, <<>>, <<>>)
             ELSE createConfigMap("n1", params.dryRun, fate)
        ELSE IF params.action = "update"
        THEN IF ~params.data
             THEN Thrown("none", <<"data is required for update action">>, <<>>, <<>>)
             ELSE updateConfigMap("n1", params.dryRun, params.confirm, fate)
        ELSE IF params.action = "delete"
        THEN deleteConfigMap("n1", params.dryRun, params.confirm, fate)
        ELSE ReadOnly(ConfigMapsCalls(params.action), fate),
        params, "configmap")

----------------------------------------------------------------------------
(* src/tools/consolidated/k8s-secrets.ts *)

createSecret(name, dryRun, fate) ==
    IF fate = "init" THEN Thrown("none", InitError, <<>>, <<>>)
    ELSE IF Truthy(dryRun) \/ isDryRunMode
    THEN Returned("none",
             createDryRunSummary("create", "secret", name, DefaultNamespace, <<"type", "keys">>),
             <<Entry("create", "secret", name, "dry-run", NoError, TRUE)>>, <<>>)
    ELSE
    LET r == RunApi(<<"createNamespacedSecret">>, fate) IN
    IF ~r.ok THEN Thrown("none", r.cause, <<>>, r.api)
    ELSE Returned("none", <<"Secret", name, "created successfully">>,
             <<Entry("create", "secret", name, "success", NoError, FALSE)>>, r.api)

\* an updateSecret that records the rejected attempt in the ledger
updateSecret_logsRejection(name, dryRun, confirm, fate) ==
    IF fate = "init" THEN Thrown("none", InitError, <<>>, <<>>)
    ELSE
    LET validation == validateConfirmation("update", confirm, dryRun) IN
    IF ~validation.valid
    THEN Returned("invalid", validation.error,
             <<Entry("update", "secret", name, "failure", validation.error, FALSE)>>, <<>>)
    ELSE IF Truthy(dryRun) \/ isDryRunMode
    THEN Returned("valid",
             createDryRunSummary("update", "secret", name, DefaultNamespace, <<"keys">>),
             <<Entry("update", "secret", name, "dry-run", NoError, TRUE)>>, <<>>)
    ELSE
    LET r == RunApi(<<"readNamespacedSecret", "replaceNamespacedSecret">>, fate) IN
    IF ~r.ok THEN Thrown("valid", r.cause, <<>>, r.api)
    ELSE Returned("valid", <<"Secret", name, "updated successfully">>,
             <<Entry("update", "secret", name, "success", NoError, FALSE)>>, r.api)

updateSecret(name, dryRun, confirm, fate) ==
    IF fate = "init" THEN Thrown("none", InitError, <<>>, <<>>)
    ELSE
    LET validation == validateConfirmation("update", confirm, dryRun) IN
    IF ~validation.valid
    THEN Returned("invalid", validation.error, <<>>, <<>>)
    ELSE IF Truthy(dryRun) \/ isDryRunMode
    THEN Returned("valid",
             createDryRunSummary("update", "secret", name, DefaultNamespace, <<"keys">>),
             <<Entry("update", "secret", name, "dry-run", NoError, TRUE)>>, <<>>)
    ELSE
    LET r == RunApi(<<"readNamespacedSecret", "replaceNamespacedSecret">>, fate) IN
    IF ~r.ok THEN Thrown("valid", r.cause, <<>>, r.api)
    ELSE Returned("valid", <<"Secret", name, "updated successfully">>,
             <<Entry("update", "secret", name, "success", NoError, FALSE)>>, r.api)

deleteSecret(name, dryRun, confirm, fate) ==
    IF fate = "init" THEN Thrown("none", InitError, <<>>, <<>>)
    ELSE
    LET validation == validateConfirmation("delete", confirm, dryRun) IN
    IF ~validation.valid
    THEN Returned("invalid", validation.error, <<>>, <<>>)
    ELSE IF Truthy(dryRun) \/ isDryRunMode
    THEN Returned("valid",
             createDryRunSummary("delete", "secret", name, DefaultNamespace, <<>>),
             <<Entry("delete", "secret", name, "dry-run", NoError, TRUE)>>, <<>>)
    ELSE
    LET r == RunApi(<<"deleteNamespacedSecret">>, fate) IN
    IF ~r.ok THEN Thrown("valid", r.cause, <<>>, r.api)
    ELSE Returned("valid", <<"Secret", name, "deleted successfully">>,
             <<Entry("delete", "secret", name, "success", NoError, FALSE)>>, r.api)

SecretsCalls(action) ==
    CASE action = "list" -> <<"listNamespacedSecret">>
      [] action = "get" -> <<"readNamespacedSecret">>
      [] action = "create" -> <<"createNamespacedSecret">>
      [] action = "update" -> <<"readNamespacedSecret", "replaceNamespacedSecret">>
      [] action = "delete" -> <<"deleteNamespacedSecret">>

handleSecrets(params, fate) ==
    CatchAndLog(
        IF params.action = "list" THEN ReadOnly(SecretsCalls("list"), fate)
        ELSE IF ~params.name THEN NameRequired(params)
        ELSE IF params.action = "create"
        THEN IF ~params.data
             THEN Thrown("none", <<"data is required for create action">>, <<>>, <<>>)
             ELSE createSecret("n1", params.dryRun, fate)
        ELSE IF params.action = "update"
        THEN IF ~params.data
             THEN Thrown("none", <<"data is required for update action">>, <<>>, <<>>)
             ELSE updateSecret("n1", params.dryRun, params.confirm, fate)
        ELSE IF params.action = "delete"
        THEN deleteSecret("n1", params.dryRun, params.confirm, fate)
        ELSE ReadOnly(SecretsCalls(params.action), fate),
        params, "secret")

----------------------------------------------------------------------------
(* src/tools/consolidated/k8s-namespaces.ts *)

createNamespace(name, dryRun, fate) ==
    IF fate = "init" THEN Thrown("none", InitError, <<>>, <<>>)
    ELSE IF Truthy(dryRun) \/ isDryRunMode
    THEN Returned("none",
             createDryRunSummary("create", "namespace", name, "", <<>>),
             <<Entry("create", "namespace", name, "dry-run", NoError, TRUE)>>, <<>>)
    ELSE
    LET r == RunApi(<<"createNamespace">>, fate) IN
    IF ~r.ok THEN Thrown("none", r.cause, <<>>, r.api)
    ELSE Returned("none", <<"Namespace", name, "created successfully">>,
             <<Entry("create", "namespace", name, "success", NoError, FALSE)>>, r.api)

deleteNamespace(name, dryRun, confirm, fate) ==
    IF fate = "init" THEN Thrown("none", InitError, <<>>, <<>>)
    ELSE
    LET validation == validateConfirmation("delete", confirm, dryRun) IN
    IF ~validation.valid
    THEN Returned("invalid", validation.error, <<>>, <<>>)
    ELSE IF Truthy(dryRun) \/ isDryRunMode
    THEN Returned("valid",
             createDryRunSummary("delete", "namespace", name, "", <<>>),
             <<Entry("delete", "namespace", name, "dry-run", NoError, TRUE)>>, <<>>)
    ELSE
    LET r == RunApi(<<"deleteNamespace">>, fate) IN
    IF ~r.ok THEN Thrown("valid", r.cause, <<>>, r.api)
    ELSE Returned("valid", <<"Namespace", name, "deletion initiated">>,
             <<Entry("delete", "namespace", name, "success", NoError, FALSE)>>, r.api)

NamespacesCalls(action) ==
    CASE action = "list" -> <<"listNamespace">>
      [] action = "get" -> <<"readNamespace">>
      [] action = "create" -> <<"createNamespace">>
      [] action = "delete" -> <<"deleteNamespace">>

handleNamespaces(params, fate) ==
    CatchAndLog(
        IF params.action = "list" THEN ReadOnly(NamespacesCalls("list"), fate)
        ELSE IF ~params.name THEN NameRequired(params)
        ELSE IF params.action = "create"
        THEN createNamespace("n1", params.dryRun, fate)
        ELSE IF params.action = "delete"
        THEN deleteNamespace("n1", params.dryRun, params.confirm, fate)
        ELSE ReadOnly(NamespacesCalls(params.action), fate),
        params, "namespace")

----------------------------------------------------------------------------
(* src/tools/consolidated/k8s-audit.ts *)

AuditToolActions ==
    {"get_status", "set_dry_run", "get_session_log", "get_stats",
     "clear_session", "configure"}

AuditInput ==
    { [action |-> a, enabled |-> e, requireConfirmation |-> r, logToConsole |-> l] :
        a \in AuditToolActions, e \in OptBool, r \in OptBool, l \in OptBool }

\* the arguments an action does not read are left undefined; the console
\* line of logAudit is not modelled, and logToConsole is left off
AuditRequests ==
    { p \in AuditInput :
        /\ p.action # "set_dry_run" => p.enabled = "undefined"
        /\ p.action # "configure" =>
              p.requireConfirmation = "undefined" /\ p.logToConsole = "undefined"
        /\ p.logToConsole # "true" }

\* const updates = {}; if (x !== undefined) updates.x = x
AuditUpdates(params) ==
    [k \in {f \in {"requireConfirmation", "logToConsole"} : params[f] # "undefined"}
        |-> Truthy(params[k])]

getStatus ==
    [dryRunMode |-> isDryRunMode, config |-> auditConfig,
     sessionStats |-> getSessionStats(sessionLog)]

\* the state after the call and what the call returns or throws
handleAudit(params) ==
    LET same == [log |-> sessionLog, dry |-> dryRunMode, cfg |-> auditConfig,
                 out |-> "return", value |-> <<>>] IN
    CASE params.action = "get_status" -> [same EXCEPT !.value = getStatus]
      [] params.action = "set_dry_run" ->
            IF params.enabled = "undefined"
            THEN [same EXCEPT !.out = "throw",
                              !.value = <<"enabled is required for set_dry_run action">>]
            ELSE [same EXCEPT !.dry = Truthy(params.enabled),
                              !.value = [message |-> <<"Dry-run mode",
                                             IF Truthy(params.enabled)
                                             THEN "enabled" ELSE "disabled">>,
                                         dryRunMode |-> Truthy(params.enabled)]]
      [] params.action = "get_session_log" ->
            [same EXCEPT !.value = [entries |-> getSessionLog(sessionLog),
                                    count |-> Len(getSessionLog(sessionLog))]]
      [] params.action = "get_stats" ->
            [same EXCEPT !.value = getSessionStats(sessionLog)]
      [] params.action = "clear_session" ->
            [same EXCEPT !.log = clearSessionLog(sessionLog),
                         !.value = [message |-> <<"Session audit log cleared">>]]
      [] params.action = "configure" ->
            LET cfg == MergeConfig(auditConfig, AuditUpdates(params)) IN
            [same EXCEPT !.cfg = cfg,
                         !.value = [message |-> <<"Audit configuration updated">>,
                                    config |-> cfg]]

----------------------------------------------------------------------------
(* Tool calls, one at a time *)

ToolActions(tool) ==
    CASE tool = "pods" ->
            {"list", "get", "delete", "get_logs", "get_status", "summarize_logs"}
      [] tool = "deployments" ->
            {"list", "get", "scale", "restart", "get_status", "get_metrics"}
      [] tool = "configmaps" -> {"list", "get", "create", "update", "delete"}
      [] tool = "secrets" -> {"list", "get", "create", "update", "delete"}
      [] tool = "namespaces" -> {"list", "get", "create", "delete"}

ToolCalls(tool, action) ==
    CASE tool = "pods" -> PodsCalls(action)
      [] tool = "deployments" -> DeploymentsCalls(action)
      [] tool = "configmaps" -> ConfigMapsCalls(action)
      [] tool = "secrets" -> SecretsCalls(action)
      [] tool = "namespaces" -> NamespacesCalls(action)

\* the actions whose handler reads params.confirm
ReadsConfirm(action) == action \in {"update", "delete", "scale", "restart"}

\* the requests tried: an argument the handler never reads is left absent
Requests(tool) ==
    { [tool |-> tool, action |-> a, name |-> n, data |-> d, replicas |-> r,
       confirm |-> c, dryRun |-> dr] :
        a \in ToolActions(tool), n \in BOOLEAN, d \in BOOLEAN, r \in BOOLEAN,
        c \in OptBool, dr \in OptBool }

\* the arguments present: the handler reads name first, then data or
\* replicas, then confirm
ArgumentsComplete(p) ==
    /\ p.name
    /\ p.action \in {"create", "update"} /\ p.tool \in {"configmaps", "secrets"} => p.data
    /\ p.action = "scale" => p.replicas

Tried(tool) ==
    { p \in Requests(tool) :
        /\ p.data => /\ p.name
                     /\ tool \in {"configmaps", "secrets"}
                     /\ p.action \in {"create", "update"}
        /\ p.replicas => p.name /\ p.action = "scale"
        /\ ~(ReadsConfirm(p.action) /\ ArgumentsComplete(p)) =>
              p.confirm = "undefined" }

RECURSIVE LogAll(_, _)
LogAll(log, entries) ==
    IF entries = <<>> THEN log
    ELSE LogAll(logAudit(log, Head(entries)), Tail(entries))

ToolStep(op, params, o) ==
    /\ last = NoCall
    /\ Len(sessionLog) < MaxLog
    /\ sessionLog' = LogAll(sessionLog, o.entries)
    /\ last' = Call(op, params, o.validation, o.out,
                    IF o.out = "throw" THEN o.cause ELSE o.value, o.api)
    /\ UNCHANGED <<dryRunMode, auditConfig, snapshot, inflight>>

HandlePods(params, fate) ==
    ToolStep("handlePods", params, handlePods(params, fate))

HandleDeployments(params, fate) ==
    ToolStep("handleDeployments", params, handleDeployments(params, fate))

HandleConfigMaps(params, fate) ==
    ToolStep("handleConfigMaps", params, handleConfigMaps(params, fate))

HandleSecrets(params, fate) ==
    ToolStep("handleSecrets", params, handleSecrets(params, fate))

HandleNamespaces(params, fate) ==
    ToolStep("handleNamespaces", params, handleNamespaces(params, fate))

HandleAudit(params) ==
    LET o == handleAudit(params) IN
    /\ last = NoCall
    /\ sessionLog' = o.log
    /\ dryRunMode' = o.dry
    /\ auditConfig' = o.cfg
    /\ last' = Call("handleAudit", params, "none", o.out, o.value, <<>>)
    /\ UNCHANGED <<snapshot, inflight>>

\* the result of the call goes back to the caller; the next call can start
Reply ==
    /\ last # NoCall
    /\ last' = NoCall
    /\ UNCHANGED <<sessionLog, dryRunMode, auditConfig, snapshot, inflight>>

Next ==
    \/ \E p \in Tried("pods") :
          \E f \in Fates(ToolCalls("pods", p.action)) : HandlePods(p, f)
    \/ \E p \in Tried("deployments") :
          \E f \in Fates(ToolCalls("deployments", p.action)) : HandleDeployments(p, f)
    \/ \E p \in Tried("configmaps") :
          \E f \in Fates(ToolCalls("configmaps", p.action)) : HandleConfigMaps(p, f)
    \/ \E p \in Tried("secrets") :
          \E f \in Fates(ToolCalls("secrets", p.action)) : HandleSecrets(p, f)
    \/ \E p \in Tried("namespaces") :
          \E f \in Fates(ToolCalls("namespaces", p.action)) : HandleNamespaces(p, f)
    \/ \E p \in AuditRequests : HandleAudit(p)
    \/ Reply

Spec == Init /\ [][Next]_vars

----------------------------------------------------------------------------
(* Properties *)

Range(seq) == {seq[i] : i \in DOMAIN seq}

ToolOps ==
    {"handlePods", "handleDeployments", "handleConfigMaps", "handleSecrets",
     "handleNamespaces"}

ResourceOf(op) ==
    CASE op = "handlePods" -> "pod"
      [] op = "handleDeployments" -> "deployment"
      [] op = "handleConfigMaps" -> "configmap"
      [] op = "handleSecrets" -> "secret"
      [] op = "handleNamespaces" -> "namespace"

MutatingActions == {"create", "update", "delete", "scale", "restart"}

\* the call l made a collaborator call that changes the cluster
Mutated(l) == \E i \in DOMAIN l.api : l.api[i] \in MutationCalls

\* the call l is a tool call for a mutating action
IsMutatingCall(l) == l.op \in ToolOps /\ l.req.action \in MutatingActions

\* effective dry-run of the call l: its own argument or the global flag
EffectiveDryRun(l) == l.req.dryRun = "true" \/ dryRunMode

\* the call l threw before it reached the gate: ensureInitialized failed or
\* a required argument was missing
PreGateCauses(action) ==
    {InitError,
     <<"name is required for", action, "action">>,
     <<"data is required for create action">>,
     <<"data is required for update action">>,
     <<"replicas is required for scale action">>}

PreGateThrow(l) ==
    /\ l.out = "throw"
    /\ l.api = <<>>
    /\ \E c \in PreGateCauses(l.req.action) :
          l.value = <<"Failed to", l.req.action, ResourceOf(l.op), ":", c>>

\* C1: for every action kind, confirmed value and dry-run argument, in every
\* state of the gate, validateConfirmation returns valid when the call's
\* dry-run argument or the global flag is on; otherwise invalid, with a
\* message naming the action and telling the caller to set confirm or use
\* dry-run, exactly when requireConfirmation is set, the action is in the
\* confirmation-required set and confirmed is not true; valid in all other
\* cases.  With the default configuration delete, update and scale need
\* confirmation and list never does.
C1_ValidateConfirmation ==
    last.op = "validateConfirmation" =>
        LET a == last.req.action
            bypass == last.req.dryRun = "true" \/ dryRunMode
            needed == /\ auditConfig.requireConfirmation
                      /\ a \in auditConfig.confirmationRequired
                      /\ last.req.confirm # "true"
        IN /\ bypass => last.validation = "valid"
           /\ ~bypass => (last.validation = "invalid" <=> needed)
           /\ last.validation \in {"valid", "invalid"}
           /\ last.validation = "valid" => last.value = NoError
           /\ last.validation = "invalid" =>
                 /\ last.value[1] = "Action" /\ last.value[2] = a
                 /\ "requires confirmation." \in Range(last.value)
                 /\ "Set confirm=true to proceed," \in Range(last.value)
                 /\ "or use dryRun=true to preview changes." \in Range(last.value)
           /\ (auditConfig = DefaultAuditConfig /\ ~bypass /\ last.req.confirm # "true") =>
                 (last.validation = "invalid" <=> a \in {"delete", "update", "scale"})
           /\ (auditConfig = DefaultAuditConfig /\ a = "list") =>
                 last.validation = "valid"

\* a rejection of an action outside the default set, after a reconfiguration,
\* for a confirm that is absent
C1_Witness ==
    /\ last.op = "validateConfirmation"
    /\ last.validation = "invalid"
    /\ last.req.action = "restart"
    /\ last.req.confirm = "undefined"
    /\ last.req.dryRun = "false"

\* C2 as stated: an unconfirmed call for an action in the
\* confirmation-required set is accepted by the gate only if effective
\* dry-run is on.
C2_Original ==
    (/\ last.op \in ToolOps
     /\ last.validation = "valid"
     /\ last.req.confirm # "true"
     /\ last.req.action \in auditConfig.confirmationRequired)
        => EffectiveDryRun(last)

\* C2 amended: after any sequence of audit-tool calls and tool calls, an
\* unconfirmed call for an action in the confirmation-required set is
\* accepted by the gate only if effective dry-run is on or
\* requireConfirmation has been switched off through configure.
C2_BypassOnlyByDryRun ==
    (/\ last.op \in ToolOps
     /\ last.validation = "valid"
     /\ last.req.confirm # "true"
     /\ last.req.action \in auditConfig.confirmationRequired)
        => (EffectiveDryRun(last) \/ ~auditConfig.requireConfirmation)

\* an unconfirmed scale accepted because the global flag is on
C2_Witness ==
    /\ last.op = "handleDeployments"
    /\ last.req.action = "scale"
    /\ last.validation = "valid"
    /\ last.req.confirm = "undefined"
    /\ last.req.dryRun = "undefined"
    /\ dryRunMode
    /\ auditConfig.requireConfirmation

\* C3: when validateConfirmation returns invalid in a consolidated handler,
\* the call returns the explanatory error text as an ordinary result, makes
\* no collaborator call, and leaves the ledger, the global dry-run flag and
\* the audit configuration as they were.
C3_RejectionIsAValue ==
    [][ (last = NoCall /\ last'.validation = "invalid") =>
            /\ last'.op \in ToolOps
            /\ last'.out = "return"
            /\ last'.value = <<"Action", last'.req.action, "requires confirmation.",
                               "Set confirm=true to proceed,",
                               "or use dryRun=true to preview changes.">>
            /\ last'.api = <<>>
            /\ sessionLog' = sessionLog
            /\ dryRunMode' = dryRunMode
            /\ auditConfig' = auditConfig ]_vars

\* a secret update rejected for want of confirm
C3_Witness ==
    /\ last.op = "handleSecrets"
    /\ last.req.action = "update"
    /\ last.validation = "invalid"
    /\ last.req.confirm = "false"

\* C4: a consolidated mutating call that reaches the gate while effective
\* dry-run is on appends exactly one ledger entry, with outcome dry-run and
\* dryRun flag true, returns the createDryRunSummary preview and makes no
\* collaborator call, whatever the value of confirm.
C4_DryRunShortCircuit ==
    [][ (/\ last = NoCall
         /\ IsMutatingCall(last')
         /\ EffectiveDryRun(last')
         /\ ~PreGateThrow(last')) =>
            /\ last'.out = "return"
            /\ Len(last'.value) = 5
            /\ last'.value[1] = "DRY-RUN MODE - No changes will be made"
            /\ last'.value[2] = <<"Action:", ToUpperCase(last'.req.action)>>
            /\ last'.value[3] = <<"Resource:", ResourceOf(last'.op)>>
            /\ last'.api = <<>>
            /\ sessionLog' = Append(sessionLog,
                   [action |-> last'.req.action, resource |-> ResourceOf(last'.op),
                    result |-> "dry-run", error |-> FALSE, dryRun |-> TRUE]) ]_vars

\* a namespace delete previewed under the global flag although confirm is false
C4_Witness ==
    /\ last.op = "handleNamespaces"
    /\ last.req.action = "delete"
    /\ last.req.confirm = "false"
    /\ last.req.dryRun = "undefined"
    /\ dryRunMode
    /\ last.out = "return"
    /\ Len(sessionLog) = 1
    /\ sessionLog[1].result = "dry-run"

\* the call l passed the gate: validateConfirmation returned valid, or the
\* handler (a create) has no confirmation check, and it did not throw before
PassedGate(l) ==
    /\ IsMutatingCall(l)
    /\ l.validation # "invalid"
    /\ ~PreGateThrow(l)

\* C5: a consolidated mutating call that passes the gate with effective
\* dry-run off calls the collaborator and appends exactly one ledger entry:
\* success with dryRun false if the collaborator calls returned, failure
\* carrying an error text if one threw, in which case the call throws
\* 'Failed to <action> <resource>: <cause>'.  (A handler that reads the
\* resource before it replaces it counts the read as part of the mutation.)
C5_OneEntryPerMutation ==
    [][ (/\ last = NoCall
         /\ PassedGate(last')
         /\ ~EffectiveDryRun(last')) =>
            /\ last'.api # <<>>
            /\ last'.out \in {"return", "throw"}
            /\ last'.out = "return" =>
                  /\ Mutated(last')
                  /\ sessionLog' = Append(sessionLog,
                        [action |-> last'.req.action, resource |-> ResourceOf(last'.op),
                         result |-> "success", error |-> FALSE, dryRun |-> FALSE])
            /\ last'.out = "throw" =>
                  /\ Len(last'.value) = 5
                  /\ SubSeq(last'.value, 1, 4) =
                        <<"Failed to", last'.req.action, ResourceOf(last'.op), ":">>
                  /\ last'.value[5] = ApiError(last'.api[Len(last'.api)])
                  /\ sessionLog' = Append(sessionLog,
                        [action |-> last'.req.action, resource |-> ResourceOf(last'.op),
                         result |-> "failure", error |-> TRUE, dryRun |-> FALSE]) ]_vars

\* a confirmed scale whose replace call threw: one failure entry
C5_Witness ==
    /\ last.op = "handleDeployments"
    /\ last.req.action = "scale"
    /\ last.req.confirm = "true"
    /\ last.out = "throw"
    /\ last.api = <<"readNamespacedDeployment", "replaceNamespacedDeployment">>
    /\ Len(sessionLog) = 1
    /\ sessionLog[1].result = "failure"

\* C6 as stated: the collaborator performs a mutation only after
\* validateConfirmation has returned valid for that same call.
C6_Original ==
    (last.op \in ToolOps /\ Mutated(last)) => last.validation = "valid"

\* C7 as stated: with the default audit configuration a restart with confirm
\* absent or false and effective dry-run off does not perform the restart.
C7_Original ==
    (/\ last.op = "handleDeployments"
     /\ last.req.action = "restart"
     /\ auditConfig = DefaultAuditConfig
     /\ last.req.confirm # "true"
     /\ ~EffectiveDryRun(last))
        => ~Mutated(last)

----------------------------------------------------------------------------
(* src/index.ts: the server entry point and the tools it dispatches to *)

\* the collaborator calls of the function each case of the switch calls
ServerTools ==
    [k8s_list_deployments |-> <<"listNamespacedDeployment">>,
     k8s_get_deployment |-> <<"readNamespacedDeployment">>,
     k8s_scale_deployment |-> <<"readNamespacedDeployment", "replaceNamespacedDeployment">>,
     k8s_restart_deployment |-> <<"readNamespacedDeployment", "replaceNamespacedDeployment">>,
     k8s_get_deployment_status |-> <<"readNamespacedDeployment">>,
     k8s_list_pods |-> <<"listNamespacedPod">>,
     k8s_get_pod |-> <<"readNamespacedPod">>,
     k8s_delete_pod |-> <<"deleteNamespacedPod">>,
     k8s_get_pod_logs |-> <<"readNamespacedPodLog">>,
     k8s_get_pod_status |-> <<"readNamespacedPod">>,
     k8s_list_services |-> <<"listNamespacedService">>,
     k8s_get_service |-> <<"readNamespacedService">>,
     k8s_get_service_endpoints |-> <<"readNamespacedEndpoints">>,
     k8s_list_configmaps |-> <<"listNamespacedConfigMap">>,
     k8s_get_configmap |-> <<"readNamespacedConfigMap">>,
     k8s_create_configmap |-> <<"createNamespacedConfigMap">>,
     k8s_update_configmap |-> <<"readNamespacedConfigMap", "replaceNamespacedConfigMap">>,
     k8s_delete_configmap |-> <<"deleteNamespacedConfigMap">>,
     k8s_list_secrets |-> <<"listNamespacedSecret">>,
     k8s_get_secret |-> <<"readNamespacedSecret">>,
     k8s_create_secret |-> <<"createNamespacedSecret">>,
     k8s_update_secret |-> <<"readNamespacedSecret", "replaceNamespacedSecret">>,
     k8s_delete_secret |-> <<"deleteNamespacedSecret">>,
     k8s_list_namespaces |-> <<"listNamespace">>,
     k8s_get_namespace |-> <<"readNamespace">>,
     k8s_create_namespace |-> <<"createNamespace">>,
     k8s_delete_namespace |-> <<"deleteNamespace">>,
     k8s_get_pod_metrics |-> <<"getPodMetrics">>,
     k8s_get_node_metrics |-> <<"getNodeMetrics">>,
     k8s_get_deployment_metrics |->
        <<"readNamespacedDeployment", "listNamespacedPod", "getPodMetrics">>,
     k8s_get_events |-> <<"listNamespacedEvent">>,
     k8s_get_resource_events |-> <<"listNamespacedEvent">>,
     k8s_get_recent_events |-> <<"listNamespacedEvent">>]

\* the tool names a request may carry: those of the switch and one other
ToolNames == DOMAIN ServerTools \cup {"k8s_pods"}

\* the destructive tools of the entry point
DestructiveTools ==
    {"k8s_delete_pod", "k8s_delete_configmap", "k8s_delete_secret",
     "k8s_delete_namespace", "k8s_scale_deployment", "k8s_restart_deployment",
     "k8s_update_configmap", "k8s_update_secret"}

\* a function of src/tools/*.ts: ensureInitialized, then the collaborator
\* calls inside try, a failure rethrown as 'Failed to ...: cause'
ToolFunction(tool, fate) ==
    IF fate = "init" THEN Thrown("none", InitError, <<>>, <<>>)
    ELSE LET r == RunApi(ServerTools[tool], fate) IN
         IF r.ok THEN Returned("none", <<"result of", tool>>, <<>>, r.api)
         ELSE Thrown("none", <<"Failed to", tool, ":", r.cause>>, <<>>, r.api)

\* handleToolCall: args.confirm and args.dryRun are never read
handleToolCall(name, args, fate) ==
    IF name \notin DOMAIN ServerTools
    THEN Returned("none", [error |-> <<"Unknown tool:", name>>], <<>>, <<>>)
    ELSE LET o == ToolFunction(name, fate) IN
         IF o.out = "throw"
         THEN Returned("none", [error |-> o.cause], <<>>, o.api)
         ELSE Returned("none", [text |-> o.value], <<>>, o.api)

ServerRequests ==
    { [NoReq EXCEPT !.tool = t, !.name = TRUE, !.confirm = c, !.dryRun = d] :
        t \in ToolNames, c \in OptBool, d \in OptBool }

ServerFates(tool) ==
    IF tool \in DOMAIN ServerTools THEN Fates(ServerTools[tool]) ELSE {"ok"}

HandleToolCall(req, fate) ==
    LET o == handleToolCall(req.tool, req, fate) IN
    /\ last = NoCall
    /\ last' = Call("handleToolCall", req, o.validation, o.out, o.value, o.api)
    /\ UNCHANGED <<sessionLog, dryRunMode, auditConfig, snapshot, inflight>>

NextServer ==
    \/ \E req \in ServerRequests : \E f \in ServerFates(req.tool) :
          HandleToolCall(req, f)
    \/ Reply

SpecServer == Init /\ [][NextServer]_vars

\* C8 as stated: a destructive tool call dispatched by the server entry
\* point reaches the cluster collaborator only if the request carried
\* confirm=true.
C8_Original ==
    (/\ last.op = "handleToolCall"
     /\ last.req.tool \in DestructiveTools
     /\ Mutated(last))
        => last.req.confirm = "true"

----------------------------------------------------------------------------
(* The ledger *)

\* C9: without clearSessionLog the ledger only grows: a step that is not a
\* clear keeps every entry unchanged at its position, a logAudit call adds
\* exactly its entry at the end, and the other calls leave the ledger as
\* it is.
C9_LedgerOnlyGrows ==
    [][last'.op # "clearSessionLog" =>
          /\ Len(sessionLog') >= Len(sessionLog)
          /\ SubSeq(sessionLog', 1, Len(sessionLog)) = sessionLog
          /\ last'.op = "logAudit" =>
                sessionLog' = Append(sessionLog, last'.value[1])
          /\ last'.op # "logAudit" => sessionLog' = sessionLog]_vars

C9_Witness ==
    /\ last.op = "logAudit"
    /\ Len(sessionLog) = 2
    /\ sessionLog[2] = last.value[1]
    /\ sessionLog[1] # sessionLog[2]

CountWhere(log, P(_)) == Cardinality({i \in 1..Len(log) : P(log[i])})

RECURSIVE SumOver(_)
SumOver(f) ==
    IF DOMAIN f = {} THEN 0
    ELSE LET k == CHOOSE x \in DOMAIN f : TRUE IN
         f[k].n + SumOver([x \in DOMAIN f \ {k} |-> f[x]])

\* C10 as stated: getSessionStats returns total = the number of entries,
\* success / failure / dryRun = the number of entries with that outcome,
\* byAction[a] and byResource[r] = the number of entries with that action
\* or resource, so that the total equals each of the three sums, and the
\* call changes no state.
C10_Original ==
    [][last'.op = "getSessionStats" =>
          LET stats == last'.value
              ByAction(a) == CountWhere(sessionLog, LAMBDA e : e.action = a)
              ByResource(r) == CountWhere(sessionLog, LAMBDA e : e.resource = r)
          IN
          /\ UNCHANGED <<sessionLog, dryRunMode, auditConfig>>
          /\ stats.total = Len(sessionLog)
          /\ stats.success =
                CountWhere(sessionLog, LAMBDA e : e.result = "success")
          /\ stats.failure =
                CountWhere(sessionLog, LAMBDA e : e.result = "failure")
          /\ stats.dryRun =
                CountWhere(sessionLog, LAMBDA e : e.result = "dry-run")
          /\ DOMAIN stats.byAction = {sessionLog[i].action : i \in 1..Len(sessionLog)}
          /\ \A a \in DOMAIN stats.byAction : stats.byAction[a] = Num(ByAction(a))
          /\ DOMAIN stats.byResource =
                {sessionLog[i].resource : i \in 1..Len(sessionLog)}
          /\ \A r \in DOMAIN stats.byResource :
                stats.byResource[r] = Num(ByResource(r))
          /\ stats.total = stats.success + stats.failure + stats.dryRun
          /\ stats.total = SumOver(stats.byAction)
          /\ stats.total = SumOver(stats.byResource)]_vars

\* C11: clearSessionLog empties the ledger, so that getSessionLog then
\* returns no entries and getSessionStats zero counts with empty
\* breakdowns; it leaves the dry-run flag and the configuration unchanged,
\* and an array returned by an earlier getSessionLog still holds the
\* entries it was returned with.
C11_ClearSessionLog ==
    [][last'.op = "clearSessionLog" =>
          LET stats == getSessionStats(sessionLog') IN
          /\ sessionLog' = <<>>
          /\ getSessionLog(sessionLog') = <<>>
          /\ stats.total = 0 /\ stats.success = 0
          /\ stats.failure = 0 /\ stats.dryRun = 0
          /\ DOMAIN stats.byAction = {} /\ DOMAIN stats.byResource = {}
          /\ UNCHANGED <<dryRunMode, auditConfig>>
          /\ snapshot.kept =>
                /\ snapshot'.kept
                /\ Contents(snapshot)' = Contents(snapshot)]_vars

C11_Witness ==
    /\ last.op = "clearSessionLog"
    /\ sessionLog = <<>>
    /\ dryRunMode
    /\ snapshot.kept
    /\ Len(Contents(snapshot)) = 2

\* C12: configureAudit(partial) changes exactly the fields supplied, keeps
\* the previous value of every other field and changes neither the dry-run
\* flag nor the ledger; setDryRunMode(b) makes isDryRunMode() return b and
\* changes neither the configuration nor the ledger.
C12_PartialMergeAndIndependence ==
    [][/\ last'.op = "configureAudit" =>
             LET partial == last'.value[1] IN
             /\ DOMAIN auditConfig' = DOMAIN auditConfig
             /\ \A k \in DOMAIN partial : auditConfig'[k] = partial[k]
             /\ \A k \in DOMAIN auditConfig \ DOMAIN partial :
                   auditConfig'[k] = auditConfig[k]
             /\ UNCHANGED <<dryRunMode, sessionLog>>
       /\ last'.op = "setDryRunMode" =>
             /\ isDryRunMode' = last'.value[1]
             /\ UNCHANGED <<auditConfig, sessionLog>>]_vars

C12_Witness ==
    /\ last.op = "configureAudit"
    /\ DOMAIN last.value[1] = {"logToConsole"}
    /\ auditConfig.logToConsole
    /\ ~auditConfig.requireConfirmation
    /\ auditConfig.confirmationRequired # DefaultAuditConfig.confirmationRequired
    /\ dryRunMode
    /\ Len(sessionLog) = 1

----------------------------------------------------------------------------
(* The input echo of the entries the secrets tool logs *)

\* the keys a secret's data can have, in insertion order, and the values
KeyOrder == <<"k1", "k2">>
SecretValues == {"v1", "v2"}

\* Record<string, string>
SecretData ==
    UNION { [K -> SecretValues] : K \in SUBSET {KeyOrder[i] : i \in DOMAIN KeyOrder} }

\* params.type
SecretTypes == {"undefined", "kubernetes.io/tls"}

\* Object.keys(data)
ObjectKeys(data) == SelectSeq(KeyOrder, LAMBDA k : k \in DOMAIN data)

\* Object.values(data)
ObjectValues(data) ==
    [i \in 1..Len(ObjectKeys(data)) |-> data[ObjectKeys(data)[i]]]

\* an echo that copies the data of the request as it came
SecretInput_echoesData(params, type, data, result) ==
    IF result = "failure"
    THEN [action |-> <<params.action>>,
          name |-> IF params.name THEN <<"n1">> ELSE <<>>,
          type |-> IF type = "undefined" THEN <<>> ELSE <<type>>,
          confirm |-> <<params.confirm>>,
          dryRun |-> <<params.dryRun>>,
          data |-> IF params.data THEN ObjectValues(data) ELSE <<>>]
    ELSE [keys |-> ObjectKeys(data)]

\* the input: of each logAudit call of k8s-secrets.ts, every field a
\* sequence of tokens.  createSecret: { type, keys: Object.keys(data) };
\* updateSecret: { keys: Object.keys(data) }; deleteSecret: {};
\* the catch of handleSecrets:
\* { ...params, data: params.data ? '[REDACTED]' : undefined }
SecretInput(params, type, data, result) ==
    IF result = "failure"
    THEN [action |-> <<params.action>>,
          name |-> IF params.name THEN <<"n1">> ELSE <<>>,
          type |-> IF type = "undefined" THEN <<>> ELSE <<type>>,
          confirm |-> <<params.confirm>>,
          dryRun |-> <<params.dryRun>>,
          data |-> IF params.data THEN <<"[REDACTED]">> ELSE <<>>]
    ELSE CASE params.action = "create" ->
                [type |-> <<IF type = "undefined" THEN "Opaque" ELSE type>>,
                 keys |-> ObjectKeys(data)]
           [] params.action = "update" -> [keys |-> ObjectKeys(data)]
           [] OTHER -> [k \in {} |-> <<>>]

\* handleSecrets with the input echo of the entries it logs
handleSecretsLogged(params, type, data, fate) ==
    LET o == handleSecrets(params, fate) IN
    [o EXCEPT !.entries =
        [i \in DOMAIN o.entries |->
            [k \in DOMAIN o.entries[i] \cup {"input"} |->
                IF k = "input"
                THEN SecretInput(params, type, data, o.entries[i].result)
                ELSE o.entries[i][k]]]]

\* the data with the same keys and every value the same one: two data
\* that differ only in their values have the same SameKeys
SameKeys(data) == [k \in DOMAIN data |-> "v1"]

\* the same call made twice from the same state, with data and with
\* SameKeys(data): the ledger takes the first run, the other run's ledger
\* is kept beside it
HandleSecretsPair(params, type, data, fate) ==
    LET other == SameKeys(data)
        a == handleSecretsLogged(params, type, data, fate)
        b == handleSecretsLogged(params, type, other, fate) IN
    /\ last = NoCall
    /\ Len(sessionLog) < MaxLog
    /\ sessionLog' = LogAll(sessionLog, a.entries)
    /\ last' = Call("handleSecretsPair", params, a.validation, a.out,
                    [data |-> data, other |-> other,
                     otherOut |-> b.out,
                     otherLog |-> LogAll(sessionLog, b.entries)],
                    a.api)
    /\ UNCHANGED <<dryRunMode, auditConfig, snapshot, inflight>>

NextSecrets ==
    \/ \E p \in Tried("secrets"), t \in SecretTypes :
          \E d \in IF p.data THEN SecretData ELSE {<< >>} :
             \E f \in Fates(ToolCalls("secrets", p.action)) :
                HandleSecretsPair(p, t, d, f)
    \/ \E b \in BOOLEAN : last = NoCall /\ SetDryRunMode(b)
    \/ Reply

SpecSecrets == Init /\ [][NextSecrets]_vars

\* C13: no ledger entry contains a data value of a secret, and two runs of
\* the secrets tool that differ only in the data values leave ledgers whose
\* entries have identical input echoes, on the success, dry-run and
\* failure paths: every run has the echoes of the run with the same keys
\* and one fixed value, and so any two such runs have the same echoes.
C13_SecretValuesNotLogged ==
    /\ \A i \in DOMAIN sessionLog :
          \A k \in DOMAIN sessionLog[i].input :
             \A j \in DOMAIN sessionLog[i].input[k] :
                sessionLog[i].input[k][j] \notin SecretValues
    /\ last.op = "handleSecretsPair" =>
          /\ last.value.otherOut = last.out
          /\ Len(last.value.otherLog) = Len(sessionLog)
          /\ \A i \in DOMAIN sessionLog :
                sessionLog[i].input = last.value.otherLog[i].input

C13_Witness ==
    /\ last.op = "handleSecretsPair"
    /\ last.req.action = "update"
    /\ DOMAIN last.value.data = {"k1", "k2"}
    /\ last.value.data # last.value.other
    /\ Len(sessionLog) = 1
    /\ sessionLog[1].result = "failure"
    /\ sessionLog[1].input.data = <<"[REDACTED]">>

----------------------------------------------------------------------------
(* The log processor (src/utils/log-processor.ts).  A string is the        *)
(* sequence of its characters, "\n" among them.                            *)

\* longest text tried, in lines
MaxTextLines == 2

LowerLetters == <<"a", "b", "c", "d", "e", "f", "g", "h", "i", "j", "k", "l", "m", "n", "o", "p", "q", "r", "s", "t", "u", "v", "w", "x", "y", "z">>
UpperLetters == <<"A", "B", "C", "D", "E", "F", "G", "H", "I", "J", "K", "L", "M", "N", "O", "P", "Q", "R", "S", "T", "U", "V", "W", "X", "Y", "Z">>

\* String.prototype.toUpperCase, a character at a time
UpperChar(c) ==
    IF \E i \in DOMAIN LowerLetters : LowerLetters[i] = c
    THEN UpperLetters[CHOOSE i \in DOMAIN LowerLetters : LowerLetters[i] = c]
    ELSE IF c = "é" THEN "É" ELSE c

toUpperCase(s) == [i \in DOMAIN s |-> UpperChar(s[i])]

\* String.prototype.includes
Includes(s, m) ==
    \E i \in 0..(Len(s) - Len(m)) : \A j \in 1..Len(m) : s[i + j] = m[j]

\* logs.split('\n')
RECURSIVE Split(_)
Split(s) ==
    IF \A i \in DOMAIN s : s[i] # "\n" THEN <<s>>
    ELSE LET i == CHOOSE k \in DOMAIN s :
                     s[k] = "\n" /\ \A j \in 1..(k - 1) : s[j] # "\n"
         IN <<SubSeq(s, 1, i - 1)>> \o Split(SubSeq(s, i + 1, Len(s)))

\* lines.join('\n')
RECURSIVE Join(_)
Join(lines) ==
    IF lines = <<>> THEN <<>>
    ELSE IF Len(lines) = 1 THEN lines[1]
    ELSE lines[1] \o <<"\n">> \o Join(Tail(lines))

\* !line.trim(): the line has only white space
WhiteSpace == {" ", "\t", "\r"}
IsBlank(line) == \A i \in DOMAIN line : line[i] \in WhiteSpace

LogSeverity == {"ERROR", "WARN", "INFO", "DEBUG", "TRACE"}

\* the markers of each tier, in the order detectSeverity tries the tiers
ErrorMarkers ==
    {<<"E", "R", "R", "O", "R">>, <<"F", "A", "T", "A", "L">>, <<"S", "E", "V", "E", "R", "E">>,
     <<"\"", "L", "E", "V", "E", "L", "\"", ":", "\"", "E", "R", "R", "O", "R", "\"">>,
     <<"L", "E", "V", "E", "L", "=", "E", "R", "R", "O", "R">>}
WarnMarkers ==
    {<<"W", "A", "R", "N">>, <<"W", "A", "R", "N", "I", "N", "G">>,
     <<"\"", "L", "E", "V", "E", "L", "\"", ":", "\"", "W", "A", "R", "N", "\"">>,
     <<"L", "E", "V", "E", "L", "=", "W", "A", "R", "N">>}
DebugMarkers ==
    {<<"D", "E", "B", "U", "G">>,
     <<"\"", "L", "E", "V", "E", "L", "\"", ":", "\"", "D", "E", "B", "U", "G", "\"">>,
     <<"L", "E", "V", "E", "L", "=", "D", "E", "B", "U", "G">>}
TraceMarkers ==
    {<<"T", "R", "A", "C", "E">>,
     <<"\"", "L", "E", "V", "E", "L", "\"", ":", "\"", "T", "R", "A", "C", "E", "\"">>,
     <<"L", "E", "V", "E", "L", "=", "T", "R", "A", "C", "E">>}
InfoMarkers ==
    {<<"I", "N", "F", "O">>,
     <<"\"", "L", "E", "V", "E", "L", "\"", ":", "\"", "I", "N", "F", "O", "\"">>,
     <<"L", "E", "V", "E", "L", "=", "I", "N", "F", "O">>}

\* a detectSeverity that tries INFO before DEBUG
detectSeverity_infoBeforeDebug(line) ==
    LET upperLine == toUpperCase(line)
        Has(markers) == \E m \in markers : Includes(upperLine, m) IN
    IF Has(ErrorMarkers) THEN "ERROR"
    ELSE IF Has(WarnMarkers) THEN "WARN"
    ELSE IF Has(InfoMarkers) THEN "INFO"
    ELSE IF Has(DebugMarkers) THEN "DEBUG"
    ELSE IF Has(TraceMarkers) THEN "TRACE"
    ELSE "UNKNOWN"

detectSeverity(line) ==
    LET upperLine == toUpperCase(line)
        Has(markers) == \E m \in markers : Includes(upperLine, m) IN
    IF Has(ErrorMarkers) THEN "ERROR"
    ELSE IF Has(WarnMarkers) THEN "WARN"
    ELSE IF Has(DebugMarkers) THEN "DEBUG"
    ELSE IF Has(TraceMarkers) THEN "TRACE"
    ELSE IF Has(InfoMarkers) THEN "INFO"
    ELSE "UNKNOWN"

severityPriority ==
    [ERROR |-> 0, WARN |-> 1, INFO |-> 2, DEBUG |-> 3, TRACE |-> 4, UNKNOWN |-> 5]

\* a filter that keeps only the tiers strictly above the floor
filterBySeverity_strictlyAbove(logs, severity) ==
    Join(SelectSeq(Split(logs),
         LAMBDA line : /\ ~IsBlank(line)
                       /\ severityPriority[detectSeverity(line)]
                             < severityPriority[severity]))

filterBySeverity(logs, severity) ==
    Join(SelectSeq(Split(logs),
         LAMBDA line : /\ ~IsBlank(line)
                       /\ severityPriority[detectSeverity(line)]
                             <= severityPriority[severity]))

\* the texts of up to MaxTextLines lines taken from a set of lines
Texts(lines) ==
    { Join(ls) : ls \in UNION { [1..n -> lines] : n \in 1..MaxTextLines } }

\* lines of every tier, one with two markers, one of no tier, an empty one
\* and one of white space
SeverityLines ==
    {<<"e", "r", "r", "o", "r">>,
     <<"W", "a", "r", "n", "i", "n", "g">>,
     <<"d", "e", "b", "u", "g", " ", "i", "n", "f", "o">>,
     <<"I", "N", "F", "O", " ", "é">>,
     <<"l", "e", "v", "e", "l", "=", "t", "r", "a", "c", "e">>,
     <<"f", "a", "t", "a", "l">>,
     <<"o", "k">>,
     <<>>,
     <<" ", "	">>}

FilterBySeverity(logs, severity) ==
    /\ last = NoCall
    /\ last' = Call("filterBySeverity", [logs |-> logs, severity |-> severity],
                    "none", "return", filterBySeverity(logs, severity), <<>>)
    /\ UNCHANGED <<sessionLog, dryRunMode, auditConfig, snapshot, inflight>>

NextSeverity ==
    \/ \E logs \in Texts(SeverityLines), severity \in LogSeverity :
          FilterBySeverity(logs, severity)
    \/ Reply

SpecSeverity == Init /\ [][NextSeverity]_vars

\* the lines of a text at the indexes of a set, in increasing order
LinesAt(lines, idx) ==
    [k \in 1..Cardinality(idx) |->
        lines[CHOOSE i \in idx : Cardinality({j \in idx : j <= i}) = k]]

\* C14: filterBySeverity(text, T) returns exactly the non-empty lines whose
\* detected tier has priority <= priority(T), with ERROR 0 < WARN 1 <
\* INFO 2 < DEBUG 3 < TRACE 4 < UNKNOWN 5, in their original order, and no
\* other line.
C14_FilterBySeverity ==
    last.op = "filterBySeverity" =>
        LET lines == Split(last.req.logs)
            priority(t) == CASE t = "ERROR" -> 0 [] t = "WARN" -> 1
                             [] t = "INFO" -> 2 [] t = "DEBUG" -> 3
                             [] t = "TRACE" -> 4 [] t = "UNKNOWN" -> 5
            kept == { i \in DOMAIN lines :
                        /\ lines[i] # <<>>
                        /\ priority(detectSeverity(lines[i]))
                              <= priority(last.req.severity) }
        IN last.value = Join(LinesAt(lines, kept))

C14_Witness ==
    /\ last.op = "filterBySeverity"
    /\ last.req.severity = "INFO"
    /\ last.req.logs = <<"d", "e", "b", "u", "g", " ", "i", "n", "f", "o", "\n", "I", "N", "F", "O", " ", "é">>
    /\ last.value = <<"I", "N", "F", "O", " ", "é">>

----------------------------------------------------------------------------
(* truncateLogs *)

\* largest byte cap tried
MaxBytes == 6

\* Number.MAX_SAFE_INTEGER is 2^53 - 1; here the largest integer the
\* checker has, above the byte length of every text tried
MAX_SAFE_INTEGER == 2147483647

\* an optional number: <<>> is undefined, <<n>> is n
Undefined == << >>
Some(n) == <<n>>

\* U+FFFD, what a decoder that is not fatal puts for bytes it cannot decode
ReplacementChar == "U+FFFD"

\* U+1F600, a character outside the basic plane
GrinningFace == "U+1F600"

\* the number of bytes of a character in UTF-8
Width(c) ==
    CASE c \in {"é", "É"} -> 2
      [] c \in {"€", ReplacementChar} -> 3
      [] c = GrinningFace -> 4
      [] OTHER -> 1

\* Buffer.byteLength(s, 'utf8')
RECURSIVE byteLength(_)
byteLength(s) == IF s = <<>> THEN 0 ELSE Width(Head(s)) + byteLength(Tail(s))

\* new TextEncoder().encode(s): byte k of the bytes of each character
RECURSIVE Encode(_)
Encode(s) ==
    IF s = <<>> THEN <<>>
    ELSE [k \in 1..Width(Head(s)) |-> [char |-> Head(s), k |-> k]] \o Encode(Tail(s))

\* new TextDecoder('utf8', { fatal: false }).decode(bytes), for bytes cut
\* from an encoded string: the characters whose bytes are all there, and
\* U+FFFD for the bytes of a character whose last bytes are missing
Decode(bytes) ==
    LET whole == SelectSeq(bytes, LAMBDA b : b.k = Width(b.char))
        chars == [i \in DOMAIN whole |-> whole[i].char] IN
    IF bytes # <<>> /\ bytes[Len(bytes)].k < Width(bytes[Len(bytes)].char)
    THEN Append(chars, ReplacementChar)
    ELSE chars

truncateLogs(logs, maxBytes, maxLines) ==
    LET lines == Split(logs)
        cutLines == maxLines # Undefined /\ Len(lines) > maxLines[1]
        byLines == IF cutLines THEN Join(SubSeq(lines, 1, maxLines[1])) ELSE logs
        cutBytes == byteLength(byLines) > maxBytes IN
    [logs |-> IF cutBytes THEN Decode(SubSeq(Encode(byLines), 1, maxBytes))
              ELSE byLines,
     truncated |-> cutLines \/ cutBytes,
     originalSize |-> byteLength(logs)]

\* lines with characters of one, two, three and four bytes
ByteLines ==
    {<<>>, <<"a", "b">>, <<"é">>, <<"a", "€">>, <<GrinningFace, "b">>}

ByteCaps == 0..MaxBytes \cup {MAX_SAFE_INTEGER}
LineCaps == {Undefined} \cup {Some(n) : n \in 0..MaxTextLines}

TruncateLogs(logs, maxBytes, maxLines) ==
    /\ last = NoCall
    /\ last' = Call("truncateLogs",
                    [logs |-> logs, maxBytes |-> maxBytes, maxLines |-> maxLines],
                    "none", "return", truncateLogs(logs, maxBytes, maxLines), <<>>)
    /\ UNCHANGED <<sessionLog, dryRunMode, auditConfig, snapshot, inflight>>

NextTruncate ==
    \/ \E logs \in Texts(ByteLines), maxBytes \in ByteCaps, maxLines \in LineCaps :
          TruncateLogs(logs, maxBytes, maxLines)
    \/ Reply

SpecTruncate == Init /\ [][NextTruncate]_vars

\* s is the first characters of t
IsPrefix(s, t) == Len(s) <= Len(t) /\ s = SubSeq(t, 1, Len(s))

\* C15 as stated: truncateLogs(text, maxBytes) returns logs of at most
\* maxBytes bytes; when the text is longer than maxBytes the result is the
\* prefix of the text that drops the character cut at the boundary, and
\* truncated is true; originalSize is the byte length of the text.
C15_Original ==
    (last.op = "truncateLogs" /\ last.req.maxLines = Undefined) =>
        LET text == last.req.logs
            cap == last.req.maxBytes
            out == last.value IN
        /\ byteLength(out.logs) <= cap
        /\ byteLength(text) > cap =>
              /\ out.truncated
              /\ IsPrefix(out.logs, text)
              /\ byteLength(SubSeq(text, 1, Len(out.logs) + 1)) > cap
        /\ out.originalSize = byteLength(text)

----------------------------------------------------------------------------
(* grepLogs and processLogs *)

\* the alternatives of a pattern: its parts between the | signs
RECURSIVE Alternatives(_)
Alternatives(p) ==
    IF \A i \in DOMAIN p : p[i] # "|" THEN <<p>>
    ELSE LET i == CHOOSE k \in DOMAIN p :
                     p[k] = "|" /\ \A j \in 1..(k - 1) : p[j] # "|"
         IN <<SubSeq(p, 1, i - 1)>> \o Alternatives(SubSeq(p, i + 1, Len(p)))

\* new RegExp(pattern, flags) does not throw. The patterns here are
\* alternatives of literal characters with an optional ^ in front and an
\* optional $ at the end, and patterns with a [ or a ( that nothing closes,
\* which are a SyntaxError
Compiles(p) == \A i \in DOMAIN p : p[i] \notin {"[", "("}

\* the characters compared under the flags: with i, case is folded
Canonicalize(s, flags) == IF flags = "i" THEN toUpperCase(s) ELSE s

\* regex.test(line) for a pattern that compiles
RegExpTest(p, flags, line) ==
    \E a \in DOMAIN Alternatives(p) :
        LET alt == Alternatives(p)[a]
            atStart == alt # <<>> /\ Head(alt) = "^"
            rest == IF atStart THEN Tail(alt) ELSE alt
            atEnd == rest # <<>> /\ rest[Len(rest)] = "$"
            body == Canonicalize(IF atEnd THEN SubSeq(rest, 1, Len(rest) - 1) ELSE rest,
                                 flags)
            subject == Canonicalize(line, flags) IN
        CASE atStart /\ atEnd -> subject = body
          [] atStart /\ ~atEnd -> IsPrefix(body, subject)
          [] ~atStart /\ atEnd ->
                /\ Len(body) <= Len(subject)
                /\ body = SubSeq(subject, Len(subject) - Len(body) + 1, Len(subject))
          [] OTHER -> Includes(subject, body)

LogsReturned(logs) == [threw |-> FALSE, logs |-> logs]
LogsThrown(message, pattern) == [threw |-> TRUE, error |-> <<message, pattern>>]

\* a grepLogs that compares case as written
grepLogs_caseSensitive(logs, pattern) ==
    IF Compiles(pattern)
    THEN LogsReturned(Join(SelectSeq(Split(logs),
                                 LAMBDA line : RegExpTest(pattern, "", line))))
    ELSE LogsThrown("Invalid grep pattern: ", pattern)

grepLogs(logs, pattern) ==
    IF Compiles(pattern)
    THEN LogsReturned(Join(SelectSeq(Split(logs),
                                 LAMBDA line : RegExpTest(pattern, "i", line))))
    ELSE LogsThrown("Invalid grep pattern: ", pattern)

\* a processLogs that measures the text before it is filtered
processLogs_sizeBeforeFilter(logs, options) ==
    LET bySeverity == IF options.severityFilter # "undefined"
                      THEN filterBySeverity(logs, options.severityFilter)
                      ELSE logs
        byGrep == IF options.grep # <<>>
                  THEN grepLogs(bySeverity, options.grep)
                  ELSE LogsReturned(bySeverity) IN
    IF byGrep.threw THEN byGrep
    ELSE LET truncateResult ==
                 truncateLogs(byGrep.logs,
                              IF options.maxBytes = Undefined \/ options.maxBytes[1] = 0
                              THEN MAX_SAFE_INTEGER ELSE options.maxBytes[1],
                              options.maxLines) IN
         [threw |-> FALSE,
          logs |-> truncateResult.logs,
          metadata |-> [truncated |-> truncateResult.truncated,
                        originalSize |-> byteLength(logs)]]

\* options.grep is a string or undefined; the empty string and undefined
\* are both falsy and both are << >> here.
\* options.maxBytes || Number.MAX_SAFE_INTEGER: undefined and 0 are falsy
processLogs(logs, options) ==
    LET bySeverity == IF options.severityFilter # "undefined"
                      THEN filterBySeverity(logs, options.severityFilter)
                      ELSE logs
        byGrep == IF options.grep # <<>>
                  THEN grepLogs(bySeverity, options.grep)
                  ELSE LogsReturned(bySeverity) IN
    IF byGrep.threw THEN byGrep
    ELSE LET truncateResult ==
                 truncateLogs(byGrep.logs,
                              IF options.maxBytes = Undefined \/ options.maxBytes[1] = 0
                              THEN MAX_SAFE_INTEGER ELSE options.maxBytes[1],
                              options.maxLines) IN
         [threw |-> FALSE,
          logs |-> truncateResult.logs,
          metadata |-> [truncated |-> truncateResult.truncated,
                        originalSize |-> truncateResult.originalSize]]

ProcessLines ==
    {<<"e", "r", "r", "o", "r", " ", "é">>,
     <<"W", "a", "r", "n", " ", "a", "b">>,
     <<"o", "k">>,
     <<>>}

\* no pattern, a literal in the other case, an anchored one, alternatives,
\* an open class and an open group
GrepPatterns ==
    {<<>>,
     <<"E">>,
     <<"^", "o", "k", "$">>,
     <<"a", "b", "|", "é">>,
     <<"[">>,
     <<"a", "(">>}

FilterSpecs ==
    [severityFilter : {"undefined", "ERROR", "INFO"},
     grep : GrepPatterns,
     maxBytes : {Undefined, Some(0), Some(2), Some(MaxBytes)},
     maxLines : {Undefined, Some(1)}]

GrepLogs(logs, pattern) ==
    /\ last = NoCall
    /\ last' = Call("grepLogs", [logs |-> logs, pattern |-> pattern],
                    "none", IF grepLogs(logs, pattern).threw THEN "throw" ELSE "return",
                    grepLogs(logs, pattern), <<>>)
    /\ UNCHANGED <<sessionLog, dryRunMode, auditConfig, snapshot, inflight>>

ProcessLogs(logs, options) ==
    /\ last = NoCall
    /\ last' = Call("processLogs", [logs |-> logs, options |-> options],
                    "none", IF processLogs(logs, options).threw THEN "throw" ELSE "return",
                    processLogs(logs, options), <<>>)
    /\ UNCHANGED <<sessionLog, dryRunMode, auditConfig, snapshot, inflight>>

NextProcess ==
    \/ \E logs \in Texts(ProcessLines), pattern \in GrepPatterns :
          GrepLogs(logs, pattern)
    \/ \E logs \in Texts(ProcessLines), options \in FilterSpecs :
          ProcessLogs(logs, options)
    \/ Reply

SpecProcess == Init /\ [][NextProcess]_vars

\* line i of the text passes the floor and the pattern of the options
PassesFilters(line, options) ==
    /\ options.severityFilter # "undefined" =>
          /\ ~IsBlank(line)
          /\ severityPriority[detectSeverity(line)]
                <= severityPriority[options.severityFilter]
    /\ options.grep # <<>> => RegExpTest(options.grep, "i", line)

\* the lines of the text that pass both, in their order
FilteredText(logs, options) ==
    LET lines == Split(logs) IN
    Join(LinesAt(lines, {i \in DOMAIN lines : PassesFilters(lines[i], options)}))

\* C17: processLogs is truncation applied to the lines that pass the
\* severity floor (if one is given) and match the pattern (if one is given),
\* in their original order; metadata.originalSize is the byte length of that
\* filtered text, before truncation. The cap of the truncation is the one
\* processLogs passes on: maxBytes, or none when maxBytes is absent or 0.
C17_FilterThenTruncate ==
    (last.op = "processLogs" /\ last.out = "return") =>
        LET o == last.req.options
            filtered == FilteredText(last.req.logs, o)
            cap == IF o.maxBytes = Undefined \/ o.maxBytes = Some(0)
                   THEN MAX_SAFE_INTEGER ELSE o.maxBytes[1]
            t == truncateLogs(filtered, cap, o.maxLines) IN
        /\ last.value.logs = t.logs
        /\ last.value.metadata.truncated = t.truncated
        /\ last.value.metadata.originalSize = byteLength(filtered)

C17_Witness ==
    /\ last.op = "processLogs"
    /\ last.out = "return"
    /\ last.req.options.severityFilter = "ERROR"
    /\ last.req.options.grep = <<"E">>
    /\ last.req.logs = <<"e", "r", "r", "o", "r", " ", "é", "\n", "W", "a", "r", "n", " ", "a", "b">>
    /\ last.req.options.maxBytes = Some(2)
    /\ last.value.logs = <<"e", "r">>
    /\ last.value.metadata.truncated
    /\ last.value.metadata.originalSize = 8

\* C18 as stated: with a byte cap maxBytes >= 0 processLogs returns logs of
\* at most maxBytes bytes, and metadata.truncated is true exactly when the
\* filtered text is longer than the cap.
C18_Original ==
    (/\ last.op = "processLogs"
     /\ last.out = "return"
     /\ last.req.options.maxBytes # Undefined
     /\ last.req.options.maxLines = Undefined) =>
        LET o == last.req.options
            filtered == FilteredText(last.req.logs, o) IN
        /\ byteLength(last.value.logs) <= o.maxBytes[1]
        /\ last.value.metadata.truncated <=> byteLength(filtered) > o.maxBytes[1]

\* C20: grepLogs throws 'Invalid grep pattern' and returns nothing exactly
\* when the pattern does not compile; otherwise it returns the lines that
\* match the pattern without regard to case, in their order. processLogs
\* with such a pattern throws the same error and returns no text.
C20_GrepLogs ==
    /\ last.op = "grepLogs" =>
          LET lines == Split(last.req.logs)
              pattern == last.req.pattern IN
          /\ last.out = "throw" <=> ~Compiles(pattern)
          /\ last.out = "throw" =>
                /\ last.value.error[1] = "Invalid grep pattern: "
                /\ "logs" \notin DOMAIN last.value
          /\ last.out = "return" =>
                last.value.logs =
                    Join(LinesAt(lines, {i \in DOMAIN lines :
                                            RegExpTest(pattern, "i", lines[i])}))
    /\ last.op = "processLogs" =>
          /\ last.out = "throw" <=> ~Compiles(last.req.options.grep)
          /\ last.out = "throw" =>
                /\ last.value.error[1] = "Invalid grep pattern: "
                /\ "logs" \notin DOMAIN last.value

C20_Witness ==
    /\ last.op = "grepLogs"
    /\ last.req.pattern = <<"E">>
    /\ last.req.logs = <<"e", "r", "r", "o", "r", " ", "é", "\n", "o", "k">>
    /\ last.value.logs = <<"e", "r", "r", "o", "r", " ", "é">>

----------------------------------------------------------------------------
(* tools/consolidated/k8s-pods.ts: getPodLogs *)

\* KUBEMCP_LOG_MAX_BYTES || '102400'
DefaultLogMaxBytes == 102400

\* config.logMaxBytes and config.logDefaultSeverity: the defaults, and an
\* environment that sets a small cap and a floor
PodLogConfigs ==
    {[logMaxBytes |-> DefaultLogMaxBytes, logDefaultSeverity |-> "undefined"],
     [logMaxBytes |-> 3, logDefaultSeverity |-> "undefined"],
     [logMaxBytes |-> DefaultLogMaxBytes, logDefaultSeverity |-> "INFO"]}

DigitChars == <<"0", "1", "2", "3", "4", "5", "6", "7", "8", "9">>

\* a number in a template string
RECURSIVE Digits(_)
Digits(n) ==
    IF n < 10 THEN <<DigitChars[n + 1]>>
    ELSE Digits(n \div 10) \o <<DigitChars[(n % 10) + 1]>>

\* `\n\n[INFO] Logs truncated. Original size: ${originalSize} bytes`
TruncationNotice(originalSize) ==
    <<"\n", "\n", "[", "I", "N", "F", "O", "]", " ", "L", "o", "g", "s",
      " ", "t", "r", "u", "n", "c", "a", "t", "e", "d", ".", " ", "O", "r",
      "i", "g", "i", "n", "a", "l", " ", "s", "i", "z", "e", ":", " ">>
      \o Digits(originalSize) \o <<" ", "b", "y", "t", "e", "s">>

\* logs = processed.logs, and the notice after it when it was truncated;
\* an error of processLogs leaves getPodLogs as it is
WithNotice(processed, api) ==
    IF processed.threw
    THEN [out |-> "throw", value |-> processed.error, api |-> api]
    ELSE [out |-> "return",
          value |-> IF processed.metadata.truncated
                    THEN processed.logs
                           \o TruncationNotice(processed.metadata.originalSize)
                    ELSE processed.logs,
          api |-> api]

\* response is what readNamespacedPodLog resolves to when it does; value
\* is the text returned, or the error thrown
getPodLogs(response, grep, severityFilter, maxBytes, config, fate) ==
    LET effectiveMaxBytes == IF maxBytes # Undefined THEN maxBytes
                             ELSE Some(config.logMaxBytes)
        effectiveSeverity == IF severityFilter # "undefined" THEN severityFilter
                             ELSE config.logDefaultSeverity
        run == RunApi(<<"readNamespacedPodLog">>, fate) IN
    IF fate = "init" THEN [out |-> "throw", value |-> InitError, api |-> <<>>]
    ELSE IF ~run.ok THEN [out |-> "throw", value |-> run.cause, api |-> run.api]
    ELSE IF effectiveSeverity # "undefined" \/ grep # <<>> \/ effectiveMaxBytes[1] # 0
    THEN WithNotice(processLogs(response,
                                [severityFilter |-> effectiveSeverity,
                                 grep |-> grep,
                                 maxBytes |-> effectiveMaxBytes,
                                 maxLines |-> Undefined]),
                    run.api)
    ELSE [out |-> "return", value |-> response, api |-> run.api]

\* the record of a getPodLogs call
PodLogsCall(req, r) == Call("getPodLogs", req, "none", r.out, r.value, r.api)

GetPodLogs(response, grep, severityFilter, maxBytes, config, fate) ==
    /\ last = NoCall
    /\ last' = PodLogsCall([response |-> response, grep |-> grep,
                            severityFilter |-> severityFilter,
                            maxBytes |-> maxBytes, config |-> config],
                           getPodLogs(response, grep, severityFilter, maxBytes,
                                      config, fate))
    /\ UNCHANGED <<sessionLog, dryRunMode, auditConfig, snapshot, inflight>>

NextPodLogs ==
    \/ \E response \in Texts(ProcessLines),
          grep \in {<<>>, <<"[">>},
          severityFilter \in {"undefined", "ERROR"},
          maxBytes \in {Undefined, Some(0), Some(MaxBytes)},
          config \in PodLogConfigs,
          fate \in Fates(<<"readNamespacedPodLog">>) :
          GetPodLogs(response, grep, severityFilter, maxBytes, config, fate)
    \/ Reply

SpecPodLogs == Init /\ [][NextPodLogs]_vars

\* C19 as stated: the text get_logs returns never exceeds the effective
\* maxBytes, the call's maxBytes or the configured default when the call
\* gives none, whether or not the log was truncated.
C19_Original ==
    (last.op = "getPodLogs" /\ last.out = "return") =>
        byteLength(last.value) <=
            IF last.req.maxBytes # Undefined THEN last.req.maxBytes[1]
            ELSE last.req.config.logMaxBytes

----------------------------------------------------------------------------
(* summarizeLogs *)

Digit == {"0", "1", "2", "3", "4", "5", "6", "7", "8", "9"}

\* \w of a regular expression
IsWordChar(c) ==
    \/ c \in Digit
    \/ c = "_"
    \/ \E i \in DOMAIN LowerLetters : c = LowerLetters[i] \/ c = UpperLetters[i]

\* the number of digits the string starts with
RECURSIVE DigitRun(_)
DigitRun(s) ==
    IF s = <<>> \/ Head(s) \notin Digit THEN 0 ELSE 1 + DigitRun(Tail(s))

\* .replace(/\b\d{5,}\b/g, '<ID>'): a run of five or more digits with no
\* word character before or after it; afterWord tells that the character
\* before s is a word character
RECURSIVE ReplaceIds(_, _)
ReplaceIds(s, afterWord) ==
    IF s = <<>> THEN <<>>
    ELSE LET n == DigitRun(s) IN
         IF /\ ~afterWord
            /\ n >= 5
            /\ (n = Len(s) \/ ~IsWordChar(s[n + 1]))
         THEN <<"<", "I", "D", ">">> \o ReplaceIds(SubSeq(s, n + 1, Len(s)), TRUE)
         ELSE <<Head(s)>> \o ReplaceIds(Tail(s), IsWordChar(Head(s)))

\* .substring(0, 200)
PatternLength == 200

\* the pattern of an error line. Of the four replacements the one of long
\* numbers is modelled: the lines tried hold no timestamp, UUID or IP
\* address, which the other three replace
ErrorPattern(line) ==
    LET replaced == ReplaceIds(line, FALSE) IN
    SubSeq(replaced, 1, IF Len(replaced) < PatternLength THEN Len(replaced)
                        ELSE PatternLength)

\* patterns.get(pattern).push(line), with a new key put last: a Map keeps
\* its keys in the order they were first set
PushSample(patterns, pattern, line) ==
    IF \E i \in DOMAIN patterns : patterns[i].pattern = pattern
    THEN [i \in DOMAIN patterns |->
             IF patterns[i].pattern = pattern
             THEN [patterns[i] EXCEPT !.samples = Append(@, line)]
             ELSE patterns[i]]
    ELSE Append(patterns, [pattern |-> pattern, samples |-> <<line>>])

RECURSIVE extractErrorPatterns(_)
extractErrorPatterns(lines) ==
    IF lines = <<>> THEN <<>>
    ELSE LET before == extractErrorPatterns(SubSeq(lines, 1, Len(lines) - 1))
             line == lines[Len(lines)] IN
         IF detectSeverity(line) # "ERROR" THEN before
         ELSE PushSample(before, ErrorPattern(line), line)

\* a sort that puts the later of two entries of equal count first
RECURSIVE SortByCount_laterFirst(_)
SortByCount_laterFirst(entries) ==
    IF entries = <<>> THEN <<>>
    ELSE LET i == CHOOSE k \in DOMAIN entries :
                     /\ \A j \in DOMAIN entries : entries[j].count <= entries[k].count
                     /\ \A j \in DOMAIN entries :
                           entries[j].count = entries[k].count => j <= k
         IN <<entries[i]>>
              \o SortByCount_laterFirst(SubSeq(entries, 1, i - 1)
                                          \o SubSeq(entries, i + 1, Len(entries)))

\* .sort((a, b) => b.count - a.count): by count, larger first; the sort is
\* stable, entries of equal count keep their order
RECURSIVE SortByCount(_)
SortByCount(entries) ==
    IF entries = <<>> THEN <<>>
    ELSE LET i == CHOOSE k \in DOMAIN entries :
                     /\ \A j \in DOMAIN entries : entries[j].count <= entries[k].count
                     /\ \A j \in DOMAIN entries :
                           entries[j].count = entries[k].count => k <= j
         IN <<entries[i]>>
              \o SortByCount(SubSeq(entries, 1, i - 1)
                               \o SubSeq(entries, i + 1, Len(entries)))

\* how many top patterns and recent errors a summary holds
SummaryLength == 5

\* a slice that takes the first n
SliceLast_takesFirst(s, n) == SubSeq(s, 1, IF Len(s) < n THEN Len(s) ELSE n)

\* s.slice(-n)
SliceLast(s, n) == SubSeq(s, IF Len(s) < n THEN 1 ELSE Len(s) - n + 1, Len(s))

\* s.slice(0, n)
SliceFirst(s, n) == SubSeq(s, 1, IF Len(s) < n THEN Len(s) ELSE n)

\* a count that takes the lines of white space in
NonEmptyLines_all(logs) == Split(logs)

\* logs.split('\n').filter((line) => line.trim())
NonEmptyLines(logs) == SelectSeq(Split(logs), LAMBDA line : ~IsBlank(line))

\* timeRange is left undefined: the lines tried hold no timestamp
summarizeLogs(logs) ==
    LET lines == NonEmptyLines(logs)
        errors == SelectSeq(lines, LAMBDA line : detectSeverity(line) = "ERROR")
        errorPatterns == extractErrorPatterns(errors) IN
    [totalLines |-> Len(lines),
     estimatedBytes |-> byteLength(logs),
     timeRange |-> [earliest |-> "undefined", latest |-> "undefined"],
     severityCounts |->
         [t \in LogSeverity \cup {"UNKNOWN"} |->
             Len(SelectSeq(lines, LAMBDA line : detectSeverity(line) = t))],
     topErrors |->
         SliceFirst(SortByCount([i \in DOMAIN errorPatterns |->
                                    [pattern |-> errorPatterns[i].pattern,
                                     count |-> Len(errorPatterns[i].samples),
                                     sample |-> errorPatterns[i].samples[1]]]),
                    SummaryLength),
     recentErrors |-> SliceLast(errors, SummaryLength)]

\* two error lines longer than a pattern that differ after its end
LongLine(c) == <<"e", "r", "r", "o", "r">> \o [i \in 1..PatternLength |-> "x"] \o <<c>>

\* a log of error lines of six patterns, two of them repeated, a line of
\* another tier and a line of white space
SummaryLog ==
    <<<<"e", "r", "r", "o", "r", " ", "1", "2", "3", "4", "5">>,
      <<"f", "a", "t", "a", "l", " ", "a">>,
      <<"e", "r", "r", "o", "r", " ", "6", "7", "8", "9", "0">>,
      <<"w", "a", "r", "n", " ", "1">>,
      <<"f", "a", "t", "a", "l", " ", "b">>,
      <<" ", " ">>,
      <<"f", "a", "t", "a", "l", " ", "c">>,
      <<"e", "r", "r", "o", "r", " ", "1", "2", "3", "4">>,
      <<"f", "a", "t", "a", "l", " ", "b">>,
      <<"s", "e", "v", "e", "r", "e", " ", "e">>>>

\* a log with the two long lines
LongLog == <<LongLine("y"), <<"f", "a", "t", "a", "l", " ", "a">>, LongLine("z")>>

\* the logs made of some of the lines of SummaryLog or of LongLog, in
\* their order
SummaryTexts ==
    { Join(LinesAt(SummaryLog, idx)) : idx \in SUBSET DOMAIN SummaryLog }
      \cup { Join(LinesAt(LongLog, idx)) : idx \in SUBSET DOMAIN LongLog }

SummarizeLogs(logs) ==
    /\ last = NoCall
    /\ last' = Call("summarizeLogs", [logs |-> logs], "none", "return",
                    summarizeLogs(logs), <<>>)
    /\ UNCHANGED <<sessionLog, dryRunMode, auditConfig, snapshot, inflight>>

NextSummary ==
    \/ \E logs \in SummaryTexts : SummarizeLogs(logs)
    \/ Reply

SpecSummary == Init /\ [][NextSummary]_vars

\* the places of the text's lines that are not empty and of tier t
TierLines(logs, t) ==
    {i \in DOMAIN Split(logs) :
        ~IsBlank(Split(logs)[i]) /\ detectSeverity(Split(logs)[i]) = t}

PatternLines(logs, pattern) ==
    {i \in TierLines(logs, "ERROR") : ErrorPattern(Split(logs)[i]) = pattern}

Least(S) == CHOOSE i \in S : \A j \in S : i <= j

\* C22: topErrors has at most 5 entries; an entry's count is the number of
\* error lines with its pattern and its sample the first of them; counts do
\* not increase along the list and equal counts are in first-seen order; no
\* pattern left out has a larger count than one in the list.
C22_TopErrors ==
    last.op = "summarizeLogs" =>
        LET logs == last.req.logs
            lines == Split(logs)
            top == last.value.topErrors IN
        /\ Len(top) <= 5
        /\ \A k \in DOMAIN top :
              /\ PatternLines(logs, top[k].pattern) # {}
              /\ top[k].count = Cardinality(PatternLines(logs, top[k].pattern))
              /\ top[k].sample = lines[Least(PatternLines(logs, top[k].pattern))]
        /\ \A k, m \in DOMAIN top :
              k < m =>
                 /\ top[k].pattern # top[m].pattern
                 /\ top[k].count >= top[m].count
                 /\ top[k].count = top[m].count =>
                       Least(PatternLines(logs, top[k].pattern))
                          < Least(PatternLines(logs, top[m].pattern))
        /\ \A i \in TierLines(logs, "ERROR") :
              \/ \E k \in DOMAIN top : top[k].pattern = ErrorPattern(lines[i])
              \/ \A k \in DOMAIN top :
                    top[k].count >= Cardinality(PatternLines(logs, ErrorPattern(lines[i])))

C22_Witness ==
    /\ last.op = "summarizeLogs"
    /\ Len(last.value.topErrors) = 5
    /\ Cardinality({ErrorPattern(Split(last.req.logs)[i]) :
                       i \in TierLines(last.req.logs, "ERROR")}) = 6
    /\ last.value.topErrors[1].count = 2
    /\ last.value.topErrors[1].pattern = <<"e", "r", "r", "o", "r", " ", "<", "I", "D", ">">>
    /\ last.value.topErrors[2].count = 2
    /\ last.value.topErrors[3].count = 1

\* C22, for lines longer than a pattern: two lines that differ only after
\* the end of the pattern are one entry, with the first as its sample.
C22_LongWitness ==
    /\ last.op = "summarizeLogs"
    /\ Len(last.value.topErrors) = 2
    /\ last.value.topErrors[1].count = 2
    /\ Len(last.value.topErrors[1].pattern) = PatternLength
    /\ last.value.topErrors[1].sample = LongLine("y")

\* C23: recentErrors is the last min(5, n) of the n error lines of the
\* text, as they are and in the order of the text.
C23_RecentErrors ==
    last.op = "summarizeLogs" =>
        LET logs == last.req.logs
            lines == Split(logs)
            errors == TierLines(logs, "ERROR")
            n == Cardinality(errors)
            recent == last.value.recentErrors IN
        /\ Len(recent) = IF n < 5 THEN n ELSE 5
        /\ recent = LinesAt(lines,
                            {i \in errors :
                                Cardinality({j \in errors : j >= i}) <= 5})

C23_Witness ==
    /\ last.op = "summarizeLogs"
    /\ Cardinality(TierLines(last.req.logs, "ERROR")) = 8
    /\ Len(last.value.recentErrors) = 5
    /\ last.value.recentErrors[5] = <<"s", "e", "v", "e", "r", "e", " ", "e">>
    /\ last.value.recentErrors[1] = <<"f", "a", "t", "a", "l", " ", "b">>

----------------------------------------------------------------------------
(* detectSeverity *)

\* the most words of a line tried
MaxWords == 2

\* keywords of every tier in lower, upper and mixed case, a word of no
\* tier, and the two structured forms
SeverityWords ==
    {<<"e", "r", "r", "o", "r">>,
     <<"F", "a", "t", "a", "l">>,
     <<"s", "e", "v", "e", "r", "e">>,
     <<"w", "a", "r", "n">>,
     <<"W", "A", "R", "N", "I", "N", "G">>,
     <<"d", "e", "b", "u", "g">>,
     <<"t", "r", "a", "c", "e">>,
     <<"i", "n", "f", "o">>,
     <<"o", "k">>,
     <<"l", "e", "v", "e", "l", "=", "i", "n", "f", "o">>,
     <<"\"", "l", "e", "v", "e", "l", "\"", ":", "\"", "t", "r", "a", "c", "e", "\"">>}

RECURSIVE JoinWords(_)
JoinWords(ws) ==
    IF ws = <<>> THEN <<>>
    ELSE IF Len(ws) = 1 THEN ws[1]
    ELSE ws[1] \o <<" ">> \o JoinWords(Tail(ws))

WordLines ==
    { JoinWords(ws) : ws \in UNION { [1..n -> SeverityWords] : n \in 1..MaxWords } }

DetectSeverity(line) ==
    /\ last = NoCall
    /\ last' = Call("detectSeverity", [line |-> line], "none", "return",
                    <<detectSeverity(line)>>, <<>>)
    /\ UNCHANGED <<sessionLog, dryRunMode, auditConfig, snapshot, inflight>>

NextDetect ==
    \/ \E line \in WordLines : DetectSeverity(line)
    \/ Reply

SpecDetect == Init /\ [][NextDetect]_vars

\* the tiers in the order they are tried, each with its keywords
SeverityFamilies ==
    <<[tier |-> "ERROR", keywords |-> {<<"E", "R", "R", "O", "R">>, <<"F", "A", "T", "A", "L">>, <<"S", "E", "V", "E", "R", "E">>}],
      [tier |-> "WARN", keywords |-> {<<"W", "A", "R", "N">>, <<"W", "A", "R", "N", "I", "N", "G">>}],
      [tier |-> "DEBUG", keywords |-> {<<"D", "E", "B", "U", "G">>}],
      [tier |-> "TRACE", keywords |-> {<<"T", "R", "A", "C", "E">>}],
      [tier |-> "INFO", keywords |-> {<<"I", "N", "F", "O">>}]>>

\* the families with a keyword in the upper-cased line
FamiliesIn(line) ==
    {k \in DOMAIN SeverityFamilies :
        \E w \in SeverityFamilies[k].keywords : Includes(toUpperCase(line), w)}

\* C24: detectSeverity gives a line the tier of the first family, in the
\* order ERROR, WARN, DEBUG, TRACE, INFO, with a keyword in the upper-cased
\* line, and UNKNOWN when there is none; the tier depends on the line only.
C24_FirstMatchWins ==
    last.op = "detectSeverity" =>
        LET found == FamiliesIn(last.req.line) IN
        last.value = <<IF found = {} THEN "UNKNOWN"
                       ELSE SeverityFamilies[Least(found)].tier>>

C24_Witness ==
    /\ last.op = "detectSeverity"
    /\ last.req.line = <<"i", "n", "f", "o", " ", "d", "e", "b", "u", "g">>
    /\ last.value = <<"DEBUG">>

----------------------------------------------------------------------------
(* src/utils/formatter.ts *)

\* the most elements of an array tried
MaxItems == 2

\* values: the primitives, arrays, and objects with their own enumerable
\* keys in the order they were set and the values of the keys beside them
JsNull == [t |-> "null"]
JsUndefined == [t |-> "undefined"]
JsString(s) == [t |-> "string", s |-> s]
JsNumber(n) == [t |-> "number", n |-> n]
JsBoolean(b) == [t |-> "boolean", b |-> b]
JsArray(items) == [t |-> "array", items |-> items]
JsObject(keys, vals) == [t |-> "object", keys |-> keys, vals |-> vals]

\* typeof value
TypeOf(value) ==
    IF value.t \in {"null", "array", "object"} THEN "object" ELSE value.t

\* the keys tried, in the order sort() puts them
FormatKeys == <<"a", "b">>

\* Object.keys(obj).sort()
SortedKeys(obj) ==
    LET idx == {i \in DOMAIN FormatKeys :
                   \E j \in DOMAIN obj.keys : obj.keys[j] = FormatKeys[i]} IN
    [k \in 1..Cardinality(idx) |->
        FormatKeys[CHOOSE i \in idx : Cardinality({j \in idx : j <= i}) = k]]

\* obj[key]
Get(obj, key) ==
    IF \E j \in DOMAIN obj.keys : obj.keys[j] = key
    THEN obj.vals[CHOOSE j \in DOMAIN obj.keys : obj.keys[j] = key]
    ELSE JsUndefined

\* an isUniformArray that looks at the values of the first element only
isUniformArray_firstValuesOnly(data) ==
    IF data.t # "array" \/ data.items = <<>> THEN FALSE
    ELSE IF ~ \A i \in DOMAIN data.items :
                 /\ TypeOf(data.items[i]) = "object"
                 /\ data.items[i].t # "null"
                 /\ data.items[i].t # "array"
    THEN FALSE
    ELSE LET firstKeys == SortedKeys(data.items[1]) IN
         IF Len(firstKeys) = 0 THEN FALSE
         ELSE /\ \A i \in DOMAIN data.items :
                    LET keys == SortedKeys(data.items[i]) IN
                    /\ Len(keys) = Len(firstKeys)
                    /\ \A idx \in DOMAIN keys : keys[idx] = firstKeys[idx]
              /\ \A idx \in DOMAIN firstKeys :
                    LET value == Get(data.items[1], firstKeys[idx]) IN
                    \/ value.t = "null"
                    \/ value.t = "undefined"
                    \/ TypeOf(value) \in {"string", "number", "boolean"}

isUniformArray(data) ==
    IF data.t # "array" \/ data.items = <<>> THEN FALSE
    ELSE IF ~ \A i \in DOMAIN data.items :
                 /\ TypeOf(data.items[i]) = "object"
                 /\ data.items[i].t # "null"
                 /\ data.items[i].t # "array"
    THEN FALSE
    ELSE LET firstKeys == SortedKeys(data.items[1]) IN
         IF Len(firstKeys) = 0 THEN FALSE
         ELSE \A i \in DOMAIN data.items :
                 LET keys == SortedKeys(data.items[i]) IN
                 /\ Len(keys) = Len(firstKeys)
                 /\ \A idx \in DOMAIN keys : keys[idx] = firstKeys[idx]
                 /\ \A idx \in DOMAIN keys :
                       LET value == Get(data.items[i], keys[idx]) IN
                       \/ value.t = "null"
                       \/ value.t = "undefined"
                       \/ TypeOf(value) \in {"string", "number", "boolean"}

\* the values tried for the two keys: every primitive, an object and an array
ValuesOfA == {JsString("s"), JsNumber(1), JsNull, JsObject(<<>>, <<>>), JsArray(<<>>)}
ValuesOfB == {JsBoolean(TRUE), JsUndefined, JsArray(<<>>)}

\* objects with no key, one key, two keys, and two keys set in the other order
FlatObjects ==
    {JsObject(<<>>, <<>>)}
      \cup {JsObject(<<"a">>, <<x>>) : x \in ValuesOfA}
      \cup {JsObject(<<"a", "b">>, <<x, y>>) : x \in ValuesOfA, y \in ValuesOfB}
      \cup {JsObject(<<"b", "a">>, <<y, x>>) :
                x \in {JsString("s"), JsNull}, y \in ValuesOfB}

ArrayItems == FlatObjects \cup {JsNull, JsNumber(1), JsArray(<<>>)}

Arrays == {JsArray(items) : items \in UNION {[1..n -> ArrayItems] : n \in 0..MaxItems}}

UniformInputs ==
    Arrays \cup {JsNull, JsUndefined, JsString("s"), JsNumber(1), JsBoolean(TRUE),
                 JsObject(<<"a">>, <<JsString("s")>>)}

IsUniformArray(data) ==
    /\ last = NoCall
    /\ last' = Call("isUniformArray", [data |-> data], "none", "return",
                    <<isUniformArray(data)>>, <<>>)
    /\ UNCHANGED <<sessionLog, dryRunMode, auditConfig, snapshot, inflight>>

NextUniform ==
    \/ \E data \in UniformInputs : IsUniformArray(data)
    \/ Reply

SpecUniform == Init /\ [][NextUniform]_vars

\* the value is a string, a number, a boolean, null or absent
IsPrimitive(value) == value.t \in {"string", "number", "boolean", "null", "undefined"}

KeySet(obj) == {obj.keys[j] : j \in DOMAIN obj.keys}

\* every element is an object that is not null and not an array, with the
\* key set of the first element and primitive values
UniformRecords(data) ==
    /\ data.t = "array"
    /\ data.items # <<>>
    /\ \A i \in DOMAIN data.items :
          /\ data.items[i].t = "object"
          /\ KeySet(data.items[i]) = KeySet(data.items[1])
          /\ \A j \in DOMAIN data.items[i].vals : IsPrimitive(data.items[i].vals[j])

\* C25 as stated: isUniformArray(value) is true if and only if value is a
\* non-empty array of non-null non-array objects that all have the key set
\* of the first and only primitive values.
C25_Original ==
    last.op = "isUniformArray" =>
        (last.value = <<TRUE>> <=> UniformRecords(last.req.data))

\* C25: isUniformArray(value) is true if and only if value is a non-empty
\* array of non-null non-array objects that all have the key set of the
\* first, that key set is not empty, and every value is primitive.
C25_UniformWithKeys ==
    last.op = "isUniformArray" =>
        (last.value = <<TRUE>> <=>
            /\ UniformRecords(last.req.data)
            /\ KeySet(last.req.data.items[1]) # {})

C25_Witness ==
    /\ last.op = "isUniformArray"
    /\ last.value = <<TRUE>>
    /\ Len(last.req.data.items) = 2
    /\ last.req.data.items[1].keys = <<"a", "b">>
    /\ last.req.data.items[2].keys = <<"b", "a">>
    /\ last.req.data.items[2].vals = <<JsUndefined, JsNull>>

\* Object.values(obj)
Values(obj) == obj.vals

\* a shouldUseToon that looks at arrays only
shouldUseToon_arraysOnly(data) == isUniformArray(data)

shouldUseToon(data) ==
    IF isUniformArray(data) THEN TRUE
    ELSE IF TypeOf(data) = "object" /\ data.t # "null" /\ data.t # "array"
    THEN \E i \in DOMAIN Values(data) : isUniformArray(Values(data)[i])
    ELSE FALSE

\* what JSON.stringify writes of a value: a key whose value is undefined is
\* left out, an undefined element of an array is written as null
RECURSIVE JsonValue(_)
JsonValue(data) ==
    CASE data.t = "array" ->
            JsArray([i \in DOMAIN data.items |->
                        IF data.items[i].t = "undefined" THEN JsNull
                        ELSE JsonValue(data.items[i])])
      [] data.t = "object" ->
            LET kept == {i \in DOMAIN data.keys : data.vals[i].t # "undefined"}
                At(k) == CHOOSE i \in kept : Cardinality({j \in kept : j <= i}) = k IN
            JsObject([k \in 1..Cardinality(kept) |-> data.keys[At(k)]],
                     [k \in 1..Cardinality(kept) |-> JsonValue(data.vals[At(k)])])
      [] OTHER -> data

\* JSON.stringify(data, null, 2): the text of the value with an indent of
\* two, and undefined, no text, for undefined
JsonStringify(data) ==
    IF data.t = "undefined" THEN [repr |-> "undefined"]
    ELSE [repr |-> "json", indent |-> 2, value |-> JsonValue(data)]

\* encode(data, { delimiter: '\t' }) of @toon-format/toon when it returns
ToonEncode(data) == [repr |-> "toon", delimiter |-> "\t", value |-> data]

ResponseFormat == {"json", "toon", "auto"}

\* encoder tells whether encode returns or throws; diagnostic, whether
\* console.error was called
formatResponse(data, format, encoder) ==
    IF data.t = "null" \/ data.t = "undefined"
    THEN [text |-> JsonStringify(data), diagnostic |-> FALSE]
    ELSE IF TypeOf(data) = "string"
    THEN [text |-> [repr |-> "string", value |-> data.s], diagnostic |-> FALSE]
    ELSE IF TypeOf(data) # "object"
    THEN [text |-> JsonStringify(data), diagnostic |-> FALSE]
    ELSE LET useFormat == IF format = "toon" THEN "toon"
                          ELSE IF format = "auto"
                          THEN (IF shouldUseToon(data) THEN "toon" ELSE "json")
                          ELSE "json" IN
         IF useFormat = "toon"
         THEN IF encoder = "ok"
              THEN [text |-> ToonEncode(data), diagnostic |-> FALSE]
              ELSE [text |-> JsonStringify(data), diagnostic |-> TRUE]
         ELSE [text |-> JsonStringify(data), diagnostic |-> FALSE]

\* elements of the arrays formatted: two objects of the same keys, one of
\* other keys, one with a nested value
FormatItems ==
    {JsObject(<<"a">>, <<JsString("s")>>),
     JsObject(<<"a">>, <<JsUndefined>>),
     JsObject(<<"b">>, <<JsBoolean(TRUE)>>),
     JsObject(<<"a">>, <<JsArray(<<>>)>>)}

FormatArrays ==
    {JsArray(items) : items \in UNION {[1..n -> FormatItems] : n \in 0..MaxItems}}

\* the primitives, the arrays, and objects that hold an array as their
\* only property, beside another property, or one level further down
FormatValues ==
    {JsNull, JsUndefined, JsString("s"), JsNumber(1), JsBoolean(TRUE),
     JsObject(<<>>, <<>>), JsArray(<<JsObject(<<>>, <<>>)>>)}
      \cup FormatArrays
      \cup {JsObject(<<"a">>, <<x>>) : x \in FormatArrays}
      \cup {JsObject(<<"a", "b">>, <<JsString("s"), x>>) : x \in FormatArrays}
      \cup {JsObject(<<"a">>, <<JsObject(<<"a">>, <<x>>)>>) : x \in FormatArrays}

FormatResponse(data, format, encoder) ==
    /\ last = NoCall
    /\ last' = Call("formatResponse",
                    [data |-> data, format |-> format, encoder |-> encoder],
                    "none", "return", formatResponse(data, format, encoder), <<>>)
    /\ UNCHANGED <<sessionLog, dryRunMode, auditConfig, snapshot, inflight>>

NextFormat ==
    \/ \E data \in FormatValues, format \in ResponseFormat, encoder \in {"ok", "throws"} :
          FormatResponse(data, format, encoder)
    \/ Reply

SpecFormat == Init /\ [][NextFormat]_vars

\* a uniform record array: what C25_UniformWithKeys says of isUniformArray
UniformRecordArray(data) ==
    UniformRecords(data) /\ KeySet(data.items[1]) # {}

\* the value is one 'auto' gives the compact representation to
AutoCompact(data) ==
    \/ UniformRecordArray(data)
    \/ /\ data.t = "object"
       /\ \E i \in DOMAIN data.vals : UniformRecordArray(data.vals[i])

C26_DeepWitness ==
    /\ last.op = "formatResponse"
    /\ last.req.format = "auto"
    /\ last.req.encoder = "ok"
    /\ last.req.data = JsObject(<<"a">>,
                                <<JsObject(<<"a">>,
                                           <<JsArray(<<JsObject(<<"a">>, <<JsString("s")>>)>>)>>)>>)
    /\ last.value.text.repr = "json"

----------------------------------------------------------------------------
(* The ledger and the read-only actions *)

\* C27 as stated: a tool call for a read-only action (list, get,
\* get_status, get_logs, summarize_logs, get_metrics), whether it returns or
\* throws, leaves the ledger as it was.
C27_Original ==
    [][ (/\ last = NoCall
         /\ last'.op \in ToolOps
         /\ last'.req.action \notin MutatingActions) =>
            sessionLog' = sessionLog ]_vars

----------------------------------------------------------------------------
(* The dryRun flag of the ledger entries *)

\* the entries the step appends to the ledger
Appended == SubSeq(sessionLog', Len(sessionLog) + 1, Len(sessionLog'))

\* C30 as stated: every entry a tool call appends to the ledger carries the
\* effective dry-run of that call, the global flag or the call's own
\* argument: true on a dry-run entry, false on a success entry, the
\* effective value on a failure entry
C30_Original ==
    [][ (/\ last = NoCall
         /\ last'.op \in ToolOps
         /\ Len(sessionLog') >= Len(sessionLog)) =>
            \A i \in DOMAIN Appended :
               /\ Appended[i].result = "dry-run" => Appended[i].dryRun
               /\ Appended[i].result = "success" => ~Appended[i].dryRun
               /\ Appended[i].result = "failure" =>
                      Appended[i].dryRun = EffectiveDryRun(last') ]_vars

----------------------------------------------------------------------------
(* Tool calls that overlap at their await points *)

\* the collaborator calls of a mutating function, in the order it awaits them
CallsOf(action) ==
    CASE action = "delete" -> <<"deleteNamespacedPod">>
      [] action = "scale" ->
            <<"readNamespacedDeployment", "replaceNamespacedDeployment">>

\* the catch block of the handler, for a call in flight: a failure entry with
\* the call's own dryRun argument
CatchInFlight(t, cause) ==
    [task |-> [t EXCEPT !.pc = "done", !.result = "failure"],
     entries |-> <<Entry(t.action, t.resource, "n1", "failure", cause,
                         Truthy(t.dryRun))>>]

\* a gate whose dry-run short-circuit looks at the call's own argument only
GateSegment_ownDryRunOnly(t) ==
    LET validation == validateConfirmation(t.action, t.confirm, t.dryRun) IN
    IF ~validation.valid
    THEN [task |-> [t EXCEPT !.pc = "done", !.validation = "invalid",
                             !.result = "refused"],
          entries |-> <<>>]
    ELSE IF Truthy(t.dryRun)
    THEN [task |-> [t EXCEPT !.pc = "done", !.validation = "valid",
                             !.result = "dry-run"],
          entries |-> <<Entry(t.action, t.resource, "n1", "dry-run",
                              NoError, TRUE)>>]
    ELSE [task |-> [t EXCEPT !.pc = "call1", !.validation = "valid",
                             !.api = <<CallsOf(t.action)[1]>>],
          entries |-> <<>>]

\* the code between "await ensureInitialized()" and the next await of
\* deletePod and scaleDeployment, which runs without interruption:
\* validateConfirmation, the return of its error, the dry-run short-circuit,
\* and the invocation of the first collaborator call
GateSegment(t) ==
    LET validation == validateConfirmation(t.action, t.confirm, t.dryRun) IN
    IF ~validation.valid
    THEN [task |-> [t EXCEPT !.pc = "done", !.validation = "invalid",
                             !.result = "refused"],
          entries |-> <<>>]
    ELSE IF Truthy(t.dryRun) \/ isDryRunMode
    THEN [task |-> [t EXCEPT !.pc = "done", !.validation = "valid",
                             !.result = "dry-run"],
          entries |-> <<Entry(t.action, t.resource, "n1", "dry-run",
                              NoError, TRUE)>>]
    ELSE [task |-> [t EXCEPT !.pc = "call1", !.validation = "valid",
                             !.api = <<CallsOf(t.action)[1]>>],
          entries |-> <<>>]

\* the code after the await of the i-th collaborator call: the next
\* collaborator call is invoked, or the success entry is logged
AfterCall(t, i) ==
    IF i < Len(CallsOf(t.action))
    THEN [task |-> [t EXCEPT !.pc = "call2",
                             !.api = Append(t.api, CallsOf(t.action)[i + 1])],
          entries |-> <<>>]
    ELSE [task |-> [t EXCEPT !.pc = "done", !.result = "success"],
          entries |-> <<Entry(t.action, t.resource, "n1", "success",
                              NoError, FALSE)>>]

\* one uninterrupted run of a call in flight, from one await to the next
Resume(id, o) ==
    /\ inflight' = [inflight EXCEPT ![id] = o.task]
    /\ sessionLog' = LogAll(sessionLog, o.entries)
    /\ UNCHANGED <<dryRunMode, auditConfig, last, snapshot>>

\* handlePods({action: 'delete', name}) up to "await ensureInitialized()"
StartDeletePod(id, dryRun, confirm) ==
    /\ inflight[id].pc = "idle"
    /\ inflight' = [inflight EXCEPT ![id] =
            [NoTask EXCEPT !.pc = "ensureInitialized", !.action = "delete",
                           !.resource = "pod", !.confirm = confirm,
                           !.dryRun = dryRun]]
    /\ UNCHANGED <<sessionLog, dryRunMode, auditConfig, last, snapshot>>

\* handleDeployments({action: 'scale', name, replicas}) up to
\* "await ensureInitialized()"
StartScaleDeployment(id, dryRun, confirm) ==
    /\ inflight[id].pc = "idle"
    /\ inflight' = [inflight EXCEPT ![id] =
            [NoTask EXCEPT !.pc = "ensureInitialized", !.action = "scale",
                           !.resource = "deployment", !.confirm = confirm,
                           !.dryRun = dryRun]]
    /\ UNCHANGED <<sessionLog, dryRunMode, auditConfig, last, snapshot>>

\* ensureInitialized settles: the gate segment runs, or the catch block
Initialized(id, ok) ==
    /\ inflight[id].pc = "ensureInitialized"
    /\ Resume(id, IF ok THEN GateSegment(inflight[id])
                  ELSE CatchInFlight(inflight[id], InitError))

\* the first collaborator call settles
FirstSettled(id, ok) ==
    /\ inflight[id].pc = "call1"
    /\ Resume(id, IF ok THEN AfterCall(inflight[id], 1)
                  ELSE CatchInFlight(inflight[id],
                                     ApiError(CallsOf(inflight[id].action)[1])))

\* the second collaborator call settles
SecondSettled(id, ok) ==
    /\ inflight[id].pc = "call2"
    /\ Resume(id, IF ok THEN AfterCall(inflight[id], 2)
                  ELSE CatchInFlight(inflight[id],
                                     ApiError(CallsOf(inflight[id].action)[2])))

\* handleAudit({action: 'set_dry_run', enabled}), which has no await
SetDryRunInFlight(params) ==
    /\ params.action = "set_dry_run"
    /\ params.enabled # "undefined"
    /\ dryRunMode' = handleAudit(params).dry
    /\ UNCHANGED <<sessionLog, auditConfig, last, snapshot, inflight>>

NextOverlap ==
    \/ \E id \in CallIds : \E d, c \in {"true", "undefined"} :
          StartDeletePod(id, d, c)
    \/ \E id \in CallIds : \E d, c \in {"true", "undefined"} :
          StartScaleDeployment(id, d, c)
    \/ \E id \in CallIds : \E ok \in BOOLEAN : Initialized(id, ok)
    \/ \E id \in CallIds : \E ok \in BOOLEAN : FirstSettled(id, ok)
    \/ \E id \in CallIds : \E ok \in BOOLEAN : SecondSettled(id, ok)
    \/ \E p \in AuditRequests : SetDryRunInFlight(p)

SpecOverlap == Init /\ [][NextOverlap]_vars

\* the call t was accepted by validateConfirmation without a confirmation
\* although its action requires one
AcceptedUnconfirmed(t) ==
    /\ t.validation = "valid"
    /\ requiresConfirmation(t.action)
    /\ ~Truthy(t.confirm)

\* C28: with calls overlapping at their await points and set_dry_run calls
\* in between, a mutating call accepted without confirmation because dry-run
\* was on has taken the dry-run path and has invoked no collaborator call
\* that changes the cluster, whatever the flag is now
C28_GateAndShortCircuitAgree ==
    \A id \in CallIds :
        AcceptedUnconfirmed(inflight[id]) =>
            /\ inflight[id].result = "dry-run"
            /\ inflight[id].api = <<>>

\* a call accepted without confirmation only because the global flag was on
\* has taken the dry-run path, the flag has been switched off since, and
\* another call is past its gate
C28_Witness ==
    \E id, other \in CallIds :
        /\ AcceptedUnconfirmed(inflight[id])
        /\ ~Truthy(inflight[id].dryRun)
        /\ inflight[id].result = "dry-run"
        /\ ~dryRunMode
        /\ other # id
        /\ inflight[other].validation = "valid"
        /\ inflight[other].api # <<>>

\* C29 as stated: while the global dry-run flag is on, no call in flight
\* invokes a collaborator call that changes the cluster
C29_Original ==
    [][ \A id \in CallIds :
           (/\ Len(inflight'[id].api) > Len(inflight[id].api)
            /\ inflight'[id].api[Len(inflight'[id].api)] \in MutationCalls) =>
               ~dryRunMode ]_vars

====
